---- MODULE Spec2Model ----
(***************************************************************************)
(* Model of SlideGen's document tree (markdown_parser/elements.py) and of  *)
(* its line-oriented Markdown parser (markdown_parser/__init__.py).        *)
(*                                                                         *)
(* Objects are node ids.  A link field holds a node id, None, or Unset     *)
(* (the attribute was never assigned on the instance: reading it raises    *)
(* AttributeError).  Every method is an operator from a heap record to a   *)
(* heap record; a raised exception or a non-terminating loop is recorded   *)
(* in the heap's err field together with the mutations made before it.     *)
(***************************************************************************)
EXTENDS Integers, Sequences, FiniteSets, TLC

\* ------------------------------------------------------------------ bounds
MaxElems == 3
MaxPos == 2
MaxArgs == 2
MaxChildren == 3
MaxTreeCalls == 4
\* the nodes a caller takes from one generator of descendants
MaxYields == 3

\* ------------------------------------------------------- values and nodes
None == 0
Unset == 0 - 1
StrArg == 0 - 2

Doc == 1
Elems == 2..(MaxElems + 1)
FirstElem == 2
PoolSize == MaxElems + 2
Node == 1..PoolSize

Max2(a, b) == IF a >= b THEN a ELSE b
Min2(a, b) == IF a <= b THEN a ELSE b

\* the elements of a sequence
Range(s) == {s[i] : i \in DOMAIN s}

\* ------------------------------------------------------- python list ops
\* seq[i] with Python's index rules; 0 stands for IndexError.
PyPos(s, i) ==
  IF i >= 0 THEN (IF i < Len(s) THEN i + 1 ELSE 0)
  ELSE (IF Len(s) + i >= 0 THEN Len(s) + i + 1 ELSE 0)

\* list.insert(i, x)
PyListInsert(s, i, x) ==
  LET k == IF i < 0 THEN Max2(Len(s) + i, 0) ELSE Min2(i, Len(s))
  IN SubSeq(s, 1, k) \o <<x>> \o SubSeq(s, k + 1, Len(s))

\* del list[k] for a 1-based position k
DelAt(s, k) == SubSeq(s, 1, k - 1) \o SubSeq(s, k + 1, Len(s))

\* ------------------------------------------------------------- the heap
Raise(h, e) == [h EXCEPT !.err = e]

\* Element.contents is a class attribute: every instance that never assigns
\* its own list reads and mutates the one list of the class.  decompose()
\* alone gives an instance a list of its own (own_contents).
ContentsOf(h, n) == IF h._decomposed[n] THEN h.own_contents[n] ELSE h.contents

\* the list n.contents names, mutated in place, is now c
WithContents(h, n, c) ==
  IF h._decomposed[n] THEN [h EXCEPT !.own_contents[n] = c]
  ELSE [h EXCEPT !.contents = c]

\* Element.index: 1-based position of the child (by identity), 0 = ValueError
index(h, self, element) ==
  LET c == ContentsOf(h, self)
      hits == {i \in 1..Len(c) : c[i] = element}
  IN IF hits = {} THEN 0 ELSE CHOOSE i \in hits : \A j \in hits : i <= j

\* Element.setup (lines 28-76) assigns the five links of self in turn; a
\* link that is not None gets the link back to self.
\* lines 55-57
SetupPreviousElement(h, self, previous_element) ==
  IF previous_element = None THEN [h EXCEPT !.previous_element[self] = None]
  ELSE [h EXCEPT !.previous_element[self] = previous_element,
                 !.next_element[previous_element] = self]

\* lines 59-61
SetupNextElement(h, self, next_element) ==
  IF next_element = None THEN [h EXCEPT !.next_element[self] = None]
  ELSE [h EXCEPT !.next_element[self] = next_element,
                 !.previous_element[next_element] = self]

\* lines 63-65
SetupNextSibling(h, self, next_sibling) ==
  IF next_sibling = None THEN [h EXCEPT !.next_sibling[self] = None]
  ELSE [h EXCEPT !.next_sibling[self] = next_sibling,
                 !.previous_sibling[next_sibling] = self]

\* lines 67-72: without a previous sibling, the last child of a parent that
\* has children is taken
SetupDefaultSibling(h, parent, previous_sibling) ==
  IF previous_sibling = None /\ parent # None
       /\ Len(ContentsOf(h, parent)) > 0
    THEN ContentsOf(h, parent)[Len(ContentsOf(h, parent))]
    ELSE previous_sibling

\* lines 74-76
SetupPreviousSibling(h, self, previous_sibling) ==
  IF previous_sibling = None THEN [h EXCEPT !.previous_sibling[self] = None]
  ELSE [h EXCEPT !.previous_sibling[self] = previous_sibling,
                 !.next_sibling[previous_sibling] = self]

setup(h, self, parent, previous_element, next_element, previous_sibling, next_sibling) ==
  SetupPreviousSibling(
    SetupNextSibling(
      SetupNextElement(
        SetupPreviousElement([h EXCEPT !.parent[self] = parent],
                             self, previous_element),
        self, next_element),
      self, next_sibling),
    self, SetupDefaultSibling(h, parent, previous_sibling))

\* the while loop of _last_descendant; a node met twice means the loop
\* never ends
RECURSIVE LastContentsWalk(_, _, _)
LastContentsWalk(h, cur, seen) ==
  IF Len(ContentsOf(h, cur)) = 0 THEN [err |-> "ok", node |-> cur]
  ELSE IF cur \in seen THEN [err |-> "hang", node |-> None]
  ELSE LastContentsWalk(h, ContentsOf(h, cur)[Len(ContentsOf(h, cur))],
                        seen \cup {cur})

\* lines 239-244: the node the search of _last_descendant stops at
LastDescendantFind(h, self, is_initialized) ==
  IF is_initialized /\ h.next_sibling[self] = Unset
    THEN [err |-> "AttributeError", node |-> None]
  ELSE IF is_initialized /\ h.next_sibling[self] # None
    THEN IF h.previous_element[h.next_sibling[self]] = Unset
           THEN [err |-> "AttributeError", node |-> None]
           ELSE [err |-> "ok",
                 node |-> h.previous_element[h.next_sibling[self]]]
  ELSE LastContentsWalk(h, self, {})

\* lines 245-247: the node found is dropped when it is self and self is not
\* accepted
LastDescendantResult(found, self, accept_self) ==
  IF found.err = "ok" /\ ~accept_self /\ found.node = self
    THEN [err |-> "ok", node |-> None]
    ELSE found

_last_descendant(h, self, is_initialized, accept_self) ==
  LastDescendantResult(LastDescendantFind(h, self, is_initialized),
                       self, accept_self)
\* ---------------------------------------------------------------- extract
\* Each step of a method takes the heap the step before left and passes a
\* heap with a raised exception on unchanged.

\* lines 161-164: del self.parent.contents[self.parent.index(self)];
\* my_index is the 1-based index, 0 when index() raised, -1 without parent
ExtractDel(h, self, my_index) ==
  IF my_index = 0 THEN Raise(h, "ValueError")
  ELSE IF my_index > 0
    THEN WithContents(h, h.parent[self],
                      DelAt(ContentsOf(h, h.parent[self]), my_index))
  ELSE h

\* lines 169-179: close the next_element chain over the removed subtree
ExtractThread(h, self, last_child) ==
  IF last_child = None THEN Raise(h, "AttributeError") ELSE
  IF h.next_element[last_child] = Unset THEN Raise(h, "AttributeError") ELSE
  IF h.previous_element[self] = Unset THEN Raise(h, "AttributeError") ELSE
  LET next_el == h.next_element[last_child]
      h1 == IF h.previous_element[self] # None
               /\ h.previous_element[self] # next_el
              THEN [h EXCEPT !.next_element[h.previous_element[self]] = next_el]
              ELSE h
      h2 == IF next_el # None /\ next_el # h1.previous_element[self]
              THEN [h1 EXCEPT !.previous_element[next_el] =
                                h1.previous_element[self]]
              ELSE h1
      h3 == [h2 EXCEPT !.previous_element[self] = None]
      h4 == [h3 EXCEPT !.next_element[last_child] = None]
  IN [h4 EXCEPT !.parent[self] = None]

\* lines 166-179: the last descendant ld of self, then the chain
ExtractLinks(h, self, ld) ==
  IF h.err # "ok" THEN h
  ELSE IF ld.err # "ok" THEN Raise(h, ld.err)
  ELSE ExtractThread(h, self, ld.node)

\* lines 180-190: unlink self from its siblings
ExtractSiblings(h, self) ==
  IF h.err # "ok" THEN h ELSE
  IF h.previous_sibling[self] = Unset THEN Raise(h, "AttributeError") ELSE
  IF h.previous_sibling[self] # None /\ h.next_sibling[self] = Unset
    THEN Raise(h, "AttributeError") ELSE
  LET h1 == IF h.previous_sibling[self] # None
               /\ h.previous_sibling[self] # h.next_sibling[self]
              THEN [h EXCEPT !.next_sibling[h.previous_sibling[self]] =
                               h.next_sibling[self]]
              ELSE h
  IN IF h1.next_sibling[self] = Unset THEN Raise(h1, "AttributeError") ELSE
     LET h2 == IF h1.next_sibling[self] # None
                  /\ h1.next_sibling[self] # h1.previous_sibling[self]
                 THEN [h1 EXCEPT !.previous_sibling[h1.next_sibling[self]] =
                                   h1.previous_sibling[self]]
                 ELSE h1
     IN [h2 EXCEPT !.previous_sibling[self] = None,
                   !.next_sibling[self] = None]

\* line 191: return self
ExtractReturn(h, self) ==
  IF h.err # "ok" THEN h ELSE [h EXCEPT !.ret = <<self>>]

\* lines 166-191 on the heap left by the removal from the parent's contents
ExtractDetached(h, self) ==
  ExtractReturn(
    ExtractSiblings(
      ExtractLinks(h, self, _last_descendant(h, self, TRUE, TRUE)), self),
    self)

\* Element.extract(); the result is in ret
extract(h, self) ==
  IF h.parent[self] = Unset THEN Raise(h, "AttributeError")
  ELSE ExtractDetached(
         ExtractDel(h, self, IF h.parent[self] # None
                               THEN index(h, h.parent[self], self)
                               ELSE 0 - 1),
         self)
\* -------------------------------------------------------------- decompose
\* _text of an instance whose __dict__ was cleared: reading it raises
\* AttributeError
NoAttribute == <<"Unset">>

\* lines 209-212 for one node e: every attribute of the instance is gone
\* (the class attribute row_number shows again), then the instance gets an
\* empty contents list of its own and _decomposed
Wiped(h, e) ==
  [h EXCEPT !.parent[e] = Unset, !.previous_element[e] = Unset,
            !.next_element[e] = Unset, !.previous_sibling[e] = Unset,
            !.next_sibling[e] = Unset, !.level[e] = Unset,
            !._text[e] = NoAttribute, !.row_number[e] = 0,
            !.main = IF e = Doc THEN Unset ELSE @,
            !.own_contents[e] = <<>>, !._decomposed[e] = TRUE]

\* lines 205-213: the loop over next_element from self; a node that was
\* wiped has no next_element any more, so the walk cannot go round
RECURSIVE DecomposeWalk(_, _)
DecomposeWalk(h, e) ==
  IF e = None THEN h
  ELSE IF h.next_element[e] = Unset THEN Raise(h, "AttributeError")
  ELSE DecomposeWalk(Wiped(h, e), h.next_element[e])

\* lines 205-213 on the heap extract() left; decompose returns None
DecomposeExtracted(h, self) ==
  IF h.err # "ok" THEN h
  ELSE [DecomposeWalk(h, self) EXCEPT !.ret = <<>>]

\* Element.decompose()
decompose(h, self) == DecomposeExtracted(extract(h, self), self)

\* lines 223-227: the loop over the copy of contents taken at the call
RECURSIVE ClearLoop(_, _, _)
ClearLoop(h, elements, destroy) ==
  IF h.err # "ok" THEN h
  ELSE IF elements = <<>> THEN [h EXCEPT !.ret = <<>>]
  ELSE ClearLoop(IF destroy THEN decompose(h, Head(elements))
                            ELSE extract(h, Head(elements)),
                 Tail(elements), destroy)

\* Element.clear(decompose); the parameter is destroy here
clear(h, self, destroy) == ClearLoop(h, ContentsOf(h, self), destroy)
\* ----------------------------------------------------------------- insert
\* InsertGuard without the check that new_child is not the receiver
InsertGuardNoSelf(self, new_child) ==
  IF new_child = None THEN "ValueError"
  ELSE IF new_child = StrArg THEN "TypeError"
  ELSE "ok"

\* lines 268-273: the argument checks of _insert ("ok" = accepted)
InsertGuard(self, new_child) ==
  IF new_child = None THEN "ValueError"
  ELSE IF new_child = self THEN "ValueError"
  ELSE IF new_child = StrArg THEN "TypeError"
  ELSE "ok"

\* lines 310-316: the next sibling of the nearest of self and its ancestors
\* that has one; a parent met twice means the loop never ends
RECURSIVE ParentsNextSibling(_, _, _)
ParentsNextSibling(h, parent, seen) ==
  IF parent = None THEN [err |-> "ok", node |-> None]
  ELSE IF parent \in seen THEN [err |-> "hang", node |-> None]
  ELSE IF h.next_sibling[parent] = Unset \/ h.parent[parent] = Unset
    THEN [err |-> "AttributeError", node |-> None]
  ELSE IF h.next_sibling[parent] # None
    THEN [err |-> "ok", node |-> h.next_sibling[parent]]
  ELSE ParentsNextSibling(h, h.parent[parent], seen \cup {parent})

\* lines 297-299: previous_element of new_child is the last descendant ld of
\* the previous child, whose next_element becomes new_child
InsertBeforeThread(h, new_child, ld) ==
  IF ld.err # "ok" THEN Raise(h, ld.err)
  ELSE IF ld.node # None
    THEN [h EXCEPT !.previous_element[new_child] = ld.node,
                   !.next_element[ld.node] = new_child]
  ELSE [h EXCEPT !.previous_element[new_child] = ld.node]

\* lines 294-299: the links to the child before the position
InsertBeforeChild(h, new_child, previous_child) ==
  InsertBeforeThread(h, new_child,
                     _last_descendant(h, previous_child, FALSE, TRUE))

\* lines 288-299: parent, previous_sibling and previous_element of new_child
InsertBefore(h, self, position, new_child) ==
  IF h.err # "ok" THEN h
  ELSE IF position = 0
    THEN [h EXCEPT !.parent[new_child] = self,
                   !.previous_sibling[new_child] = None,
                   !.previous_element[new_child] = self,
                   !.next_element[self] = new_child]
  ELSE IF PyPos(ContentsOf(h, self), position - 1) = 0
    THEN Raise([h EXCEPT !.parent[new_child] = self], "IndexError")
  ELSE InsertBeforeChild(
         [h EXCEPT !.parent[new_child] = self,
                   !.previous_sibling[new_child] =
                     ContentsOf(h, self)[PyPos(ContentsOf(h, self),
                                               position - 1)],
                   !.next_sibling[ContentsOf(h, self)[
                       PyPos(ContentsOf(h, self), position - 1)]] = new_child],
         new_child,
         ContentsOf(h, self)[PyPos(ContentsOf(h, self), position - 1)])

\* lines 307-322: new_child becomes the last child; pns is the result of the
\* search for the next sibling of the nearest ancestor
InsertAtEndLink(h, last, pns) ==
  IF pns.err # "ok" THEN Raise(h, pns.err)
  ELSE [h EXCEPT !.next_element[last] = pns.node]

InsertAtEnd(h, self, last) ==
  InsertAtEndLink(h, last, ParentsNextSibling(h, self, {}))

\* lines 324-328: new_child is put before next_child
InsertBeforeNext(h, new_child, last, next_child) ==
  [h EXCEPT !.next_sibling[new_child] = next_child,
            !.previous_sibling[next_child] = new_child,
            !.next_element[last] = next_child]

\* lines 307-328: next_sibling of new_child and next_element of its last
\* descendant
InsertAfterLink(h, self, position, new_child, last) ==
  IF position >= Len(ContentsOf(h, self))
    THEN InsertAtEnd([h EXCEPT !.next_sibling[new_child] = None], self, last)
  ELSE IF PyPos(ContentsOf(h, self), position) = 0
    THEN Raise(h, "IndexError")
  ELSE InsertBeforeNext(h, new_child, last,
         ContentsOf(h, self)[PyPos(ContentsOf(h, self), position)])

\* lines 330-336: previous_element of the node after the last descendant,
\* the insertion into contents and the result
InsertIntoContents(h, self, position, new_child, last) ==
  IF h.err # "ok" THEN h
  ELSE IF h.next_element[last] # None
    THEN [WithContents(h, self,
                       PyListInsert(ContentsOf(h, self), position, new_child))
            EXCEPT !.previous_element[h.next_element[last]] = last,
                   !.ret = <<new_child>>]
  ELSE [WithContents(h, self,
                     PyListInsert(ContentsOf(h, self), position, new_child))
          EXCEPT !.ret = <<new_child>>]

\* lines 301-336 with the last descendant ld of new_child
InsertAfterLast(h, self, position, new_child, ld) ==
  IF ld.err # "ok" THEN Raise(h, ld.err)
  ELSE InsertIntoContents(
         InsertAfterLink(h, self, position, new_child, ld.node),
         self, position, new_child, ld.node)

\* lines 301-336: next_sibling of new_child, next_element of its last
\* descendant, and the insertion into contents
InsertAfter(h, self, position, new_child) ==
  IF h.err # "ok" THEN h
  ELSE InsertAfterLast(h, self, position, new_child,
                       _last_descendant(h, new_child, FALSE, TRUE))

\* lines 288-336 on the heap left by the extraction of new_child
InsertAt(h, self, position, new_child) ==
  InsertAfter(InsertBefore(h, self, position, new_child),
              self, position, new_child)

\* lines 278-336 of _insert, for an argument that passed the checks and is
\* not a MarkdownDocument
InsertNode(h, self, pos0, new_child) ==
  LET clamped == Min2(pos0, Len(ContentsOf(h, self)))
      has_parent == h.parent[new_child] # Unset /\ h.parent[new_child] # None
      same == has_parent /\ h.parent[new_child] = self
      current_index == index(h, self, new_child) - 1
  IN IF same /\ current_index < 0 THEN Raise(h, "ValueError")
     ELSE IF same /\ current_index >= clamped /\ current_index = clamped
       THEN [h EXCEPT !.ret = <<new_child>>]
     ELSE InsertAt(IF has_parent THEN extract(h, new_child) ELSE h,
                   self,
                   IF same /\ current_index < clamped
                     THEN clamped - 1 ELSE clamped,
                   new_child)

RECURSIVE insert(_, _, _, _)
RECURSIVE _insert(_, _, _, _)
RECURSIVE InsertLoop(_, _, _, _, _)
RECURSIVE InsertLoopNext(_, _, _, _, _)

\* Element._insert
_insert(h, self, position, new_child) ==
  IF InsertGuard(self, new_child) # "ok"
    THEN Raise(h, InsertGuard(self, new_child))
  ELSE IF h.kind[new_child] = "MarkdownDocument"
    THEN insert(h, self, position, ContentsOf(h, new_child))
  ELSE InsertNode(h, self, position, new_child)

\* the loop of Element.insert over new_children; inserted accumulates
InsertLoop(h, self, position, new_children, inserted) ==
  IF new_children = <<>> THEN [h EXCEPT !.ret = inserted]
  ELSE InsertLoopNext(_insert(h, self, position, Head(new_children)),
                      self, position, new_children, inserted)

\* lines 263-264: the result of _insert joins inserted, the position advances
InsertLoopNext(h, self, position, new_children, inserted) ==
  IF h.err # "ok" THEN h
  ELSE InsertLoop(h, self, position + 1, Tail(new_children),
                  inserted \o h.ret)

\* Element.insert
insert(h, self, position, new_children) ==
  InsertLoop(h, self, position, new_children, <<>>)

\* line 346: the [0] of append
AppendResult(h) ==
  IF h.err # "ok" THEN h
  ELSE IF h.ret = <<>> THEN Raise(h, "IndexError")
  ELSE [h EXCEPT !.ret = <<h.ret[1]>>]

\* Element.append: insert(len(contents), element)[0]
append(h, self, element) ==
  AppendResult(insert(h, self, Len(ContentsOf(h, self)), <<element>>))
\* ------------------------------------------------------------ descendants
\* lines 486-489: follow next_element from the first child to the stop node;
\* descendants is a generator: each node is handed out once its successor
\* was read, so a walk that fails has yielded the nodes before the failure
RECURSIVE DescendantsWalk(_, _, _, _, _)
DescendantsWalk(h, current, stopNode, acc, seen) ==
  IF current = stopNode \/ current = None
    THEN [err |-> "ok", list |-> acc, yielded |-> acc]
  ELSE IF h.next_element[current] = Unset
    THEN [err |-> "AttributeError", list |-> <<>>, yielded |-> acc]
  ELSE IF current \in seen
    THEN [err |-> "hang", list |-> <<>>, yielded |-> acc]
  ELSE DescendantsWalk(h, h.next_element[current], stopNode,
                       Append(acc, current), seen \cup {current})

\* lines 484-489 with the last descendant ld of self
DescendantsUntil(h, self, ld) ==
  IF ld.err # "ok" THEN [err |-> ld.err, list |-> <<>>, yielded |-> <<>>]
  ELSE IF ld.node = None \/ h.next_element[ld.node] = Unset
    THEN [err |-> "AttributeError", list |-> <<>>, yielded |-> <<>>]
  ELSE DescendantsWalk(h, ContentsOf(h, self)[1],
                       h.next_element[ld.node], <<>>, {})

\* list(Element.descendants); yielded holds the nodes the generator handed
\* out before it ended or failed
descendants(h, self) ==
  IF Len(ContentsOf(h, self)) = 0
    THEN [err |-> "ok", list |-> <<>>, yielded |-> <<>>]
  ELSE DescendantsUntil(h, self, _last_descendant(h, self, TRUE, TRUE))

\* ------------------------------------------------- descendants, stepwise
\* Element.descendants is a generator: the call runs none of its code, every
\* next() runs it up to the yield of line 488, and the caller may change the
\* tree between two of them.  A suspended generator keeps stopNode and the
\* successor it read before the yield (line 487); yielded are the nodes the
\* caller was handed.
NoGenerator ==
  [state |-> "none", self |-> None, stopNode |-> None, successor |-> None,
   yielded |-> <<>>]

\* x.descendants
NewGenerator(self) == [NoGenerator EXCEPT !.state = "created", !.self = self]

\* the generator returns (StopIteration) or raises e
GeneratorEnd(gen, e) ==
  [generator |-> [gen EXCEPT !.state = "closed", !.stopNode = None,
                             !.successor = None],
   err |-> e, ret |-> <<>>]

\* lines 486-488: the test of the loop, the read of the successor, the yield
GeneratorLoop(h, gen, stopNode, current) ==
  IF current = stopNode \/ current = None THEN GeneratorEnd(gen, "ok")
  ELSE IF h.next_element[current] = Unset
    THEN GeneratorEnd(gen, "AttributeError")
  ELSE [generator |-> [gen EXCEPT !.state = "suspended",
                                  !.stopNode = stopNode,
                                  !.successor = h.next_element[current],
                                  !.yielded = Append(@, current)],
        err |-> "ok", ret |-> <<current>>]

\* lines 483-485 with the last descendant ld of self, then the loop from
\* the first child
GeneratorStart(h, gen, ld) ==
  IF ld.err # "ok" THEN GeneratorEnd(gen, ld.err)
  ELSE IF ld.node = None \/ h.next_element[ld.node] = Unset
    THEN GeneratorEnd(gen, "AttributeError")
  ELSE GeneratorLoop(h, gen, h.next_element[ld.node],
                     ContentsOf(h, gen.self)[1])

\* next(g) for a generator g of descendants: from line 478 the first time,
\* from line 489 after a yield
next_descendant(h, gen) ==
  IF gen.state = "suspended"
    THEN GeneratorLoop(h, gen, gen.stopNode, gen.successor)
  ELSE IF Len(ContentsOf(h, gen.self)) = 0 THEN GeneratorEnd(gen, "ok")
  ELSE GeneratorStart(h, gen, _last_descendant(h, gen.self, TRUE, TRUE))

\* ---------------------------------------------------------------- strings
\* A str is a sequence of one-character strings; None, where a str or None
\* is expected, is NoLine.
NoLine == <<"None">>

\* the characters \s matches and str.strip() removes
IsSpace(c) == c \in {" ", "\t"}
\* the characters \w matches, among those of the lines below
WordChars == {"A", "B", "C", "D", "T", "a", "b", "c", "d", "e", "i", "l",
              "m", "p", "t", "x", "y", "1", "2"}
\* the characters \d matches
DigitChars == {"1", "2"}

RECURSIVE lstrip(_)
lstrip(s) == IF s # <<>> /\ IsSpace(Head(s)) THEN lstrip(Tail(s)) ELSE s

RECURSIVE rstrip(_)
rstrip(s) ==
  IF s # <<>> /\ IsSpace(s[Len(s)]) THEN rstrip(SubSeq(s, 1, Len(s) - 1))
  ELSE s

strip(s) == lstrip(rstrip(s))

startswith(s, prefix) ==
  Len(s) >= Len(prefix) /\ SubSeq(s, 1, Len(prefix)) = prefix

endswith(s, suffix) ==
  Len(s) >= Len(suffix)
    /\ SubSeq(s, Len(s) - Len(suffix) + 1, Len(s)) = suffix

\* sub in s
Contains(s, sub) ==
  \E i \in 1..(Len(s) - Len(sub) + 1) : SubSeq(s, i, i + Len(sub) - 1) = sub

\* the length of the longest prefix of s made of characters of set
RECURSIVE RunLen(_, _)
RunLen(s, set) ==
  IF s # <<>> /\ Head(s) \in set THEN 1 + RunLen(Tail(s), set) ELSE 0

\* s without its first k characters
DropChars(s, k) == SubSeq(s, k + 1, Len(s))

\* s.split(c): cur is the field being read
RECURSIVE SplitFrom(_, _, _)
SplitFrom(s, c, cur) ==
  IF s = <<>> THEN <<cur>>
  ELSE IF Head(s) = c THEN <<cur>> \o SplitFrom(Tail(s), c, <<>>)
  ELSE SplitFrom(Tail(s), c, Append(cur, Head(s)))

split(s, c) == SplitFrom(s, c, <<>>)

\* "\n".join(lines)
RECURSIVE join(_)
join(lines) ==
  IF lines = <<>> THEN <<>>
  ELSE IF Len(lines) = 1 THEN lines[1]
  ELSE lines[1] \o <<"\n">> \o join(Tail(lines))

\* ------------------------------------------------------ line recognisers
\* the backquote character, which a string of the model cannot hold
Backquote == "bq"

Fence == <<Backquote, Backquote, Backquote>>

\* line 104: ^\s*```(\w+)? matches
IsCodeBlockStart(line) == startswith(lstrip(line), Fence)

\* line 107: match.group(1); <<>> stands for None (the group never matches
\* the empty string)
CodeLanguage(line) ==
  SubSeq(DropChars(lstrip(line), 3), 1,
         RunLen(DropChars(lstrip(line), 3), WordChars))

\* lines 289-290: ^{tmpl}{3,}\s*$ matches next_string
IsUnderline(next_string, tmpl) ==
  /\ RunLen(next_string, {tmpl}) >= 3
  /\ rstrip(DropChars(next_string, RunLen(next_string, {tmpl}))) = <<>>

\* lines 121-124 and 278-293: the level of the Setext heading, 0 if none
SetextLevel(string, next_string) ==
  IF next_string = NoLine \/ strip(string) = <<>> THEN 0
  ELSE IF IsUnderline(next_string, "=") THEN 1
  ELSE IF IsUnderline(next_string, "-") THEN 2
  ELSE 0

\* line 298: the characters \s? takes
AtxOffset(string) == IF string # <<>> /\ IsSpace(Head(string)) THEN 1 ELSE 0

\* lines 298-299: ^(\s?#{level}\s+)(.*)$ matches
AtxMatches(level, string) ==
  /\ Len(string) > AtxOffset(string) + level
  /\ \A i \in 1..level : string[AtxOffset(string) + i] = "#"
  /\ IsSpace(string[AtxOffset(string) + level + 1])

\* lines 129-132: the first level of 1..6 that matches, 0 if none
AtxLevel(string) ==
  IF \E level \in 1..6 : AtxMatches(level, string)
    THEN CHOOSE level \in 1..6 :
           /\ AtxMatches(level, string)
           /\ \A l \in 1..(level - 1) : ~AtxMatches(l, string)
    ELSE 0

\* line 304: result[2], what follows the whitespace after the marks
AtxText(level, string) ==
  lstrip(DropChars(string, AtxOffset(string) + level))

\* lines 119-133: what process_heading recognises; level 0 = no heading
HeadingMatch(line, next_line) ==
  IF SetextLevel(line, next_line) > 0
    THEN [level |-> SetextLevel(line, next_line), text |-> strip(line),
          text_source |-> line \o <<"\n">> \o next_line, setext |-> TRUE]
  ELSE IF AtxLevel(line) > 0
    THEN [level |-> AtxLevel(line), text |-> AtxText(AtxLevel(line), line),
          text_source |-> line, setext |-> FALSE]
  ELSE [level |-> 0, text |-> <<>>, text_source |-> <<>>, setext |-> FALSE]

IsHeading(line, next_line) == HeadingMatch(line, next_line).level > 0

\* line 138: ^([\*\-\+])\s+(.*) matches the lstripped line
IsUnorderedItem(stripped_line) ==
  /\ Len(stripped_line) >= 2
  /\ stripped_line[1] \in {"*", "-", "+"}
  /\ IsSpace(stripped_line[2])

\* line 143: ^(\d+)[\.\)]\s+(.*) matches the lstripped line
IsOrderedItem(stripped_line) ==
  /\ RunLen(stripped_line, DigitChars) >= 1
  /\ Len(stripped_line) >= RunLen(stripped_line, DigitChars) + 2
  /\ stripped_line[RunLen(stripped_line, DigitChars) + 1] \in {".", ")"}
  /\ IsSpace(stripped_line[RunLen(stripped_line, DigitChars) + 2])

IsList(line) == IsUnorderedItem(lstrip(line)) \/ IsOrderedItem(lstrip(line))

\* line 152: match.group(2).strip()
ListText(line) ==
  IF IsUnorderedItem(lstrip(line)) THEN strip(DropChars(lstrip(line), 1))
  ELSE strip(DropChars(lstrip(line),
                       RunLen(lstrip(line), DigitChars) + 1))

\* line 184: ^\s*:?-+:\s*$ matches part.strip()
IsSeparatorCell(part) ==
  LET c == strip(part)
      d == DropChars(c, IF c # <<>> /\ Head(c) = ":" THEN 1 ELSE 0)
  IN /\ RunLen(d, {"-"}) >= 1
     /\ DropChars(d, RunLen(d, {"-"})) = <<":">>

\* lines 174-186
is_markdown_table_start(line, next_line) ==
  /\ startswith(strip(line), <<"|">>)
  /\ endswith(strip(line), <<"|">>)
  /\ next_line # NoLine
  /\ next_line # <<>>
  /\ startswith(strip(next_line), <<"|">>)
  /\ endswith(strip(next_line), <<"|">>)
  /\ \A i \in 2..(Len(split(strip(next_line), "|")) - 1) :
       IsSeparatorCell(split(strip(next_line), "|")[i])

\* line 167
IsHtmlTableStart(line) == startswith(strip(line), <<"<", "t", "a", "b", "l", "e">>)

IsTable(line, next_line) ==
  is_markdown_table_start(line, next_line) \/ IsHtmlTableStart(line)

\* line 260: !\[(.*?)\]\((.*?)\s*(?:\"(.*?)\")?\) matches at the start of
\* line
IsImage(line) ==
  /\ startswith(line, <<"!", "[">>)
  /\ \E i \in 3..(Len(line) - 1) :
       /\ line[i] = "]"
       /\ line[i + 1] = "("
       /\ \E k \in (i + 2)..Len(line) : line[k] = ")"

\* line 271
IsParagraph(line) == strip(line) # <<>>

\* ------------------------------------------------------- parser handlers
\* The MarkdownParser object is the parser field of the heap.  A handler
\* takes the heap and leaves the heap after it; its boolean result is the
\* recogniser above.

\* the object the next constructor call creates
NewNode(h) ==
  CHOOSE n \in Node :
    h.kind[n] = "free" /\ \A m \in Node : h.kind[m] = "free" => n <= m

\* Heading(level, text), Paragraph(text), CodeBlock(code), Table(headers),
\* Picture(src, alt_text, title): setup() and the text of the node, what its
\* element_text reads (_text, code for a CodeBlock, the markup of src,
\* alt_text and title for a Picture); level is Unset for a node that is no
\* Heading
Construct(h, n, k, lv, text) ==
  [setup(h, n, None, None, None, None, None)
     EXCEPT !.kind[n] = k, !.level[n] = lv, !._text[n] = text]

\* elements.py lines 526-528: the setter of Heading's text is the property
\* heading_text
heading_text(h, n, text) == [h EXCEPT !._text[n] = text]

\* n.element_text = text: the setters of Paragraph (lines 552-554), CodeBlock
\* (586-588, into code) and Table (625-627) store the text, the setter of
\* Picture (660-662) stores nothing, and the property of Heading (522-524)
\* has no setter
SetElementText(h, n, text) ==
  IF h.kind[n] \in {"Paragraph", "CodeBlock", "Table"}
    THEN [h EXCEPT !._text[n] = text]
  ELSE IF h.kind[n] = "Picture" THEN h
  ELSE Raise(h, "AttributeError")

\* the assignment a caller makes to change the text of a node: heading_text
\* of a Heading, element_text of any other element
AssignText(h, n, text) ==
  IF h.kind[n] = "Heading" THEN heading_text(h, n, text)
  ELSE SetElementText(h, n, text)

\* elements.py lines 516-520: element_text_source is a property of Heading
\* without a setter, so the assignment raises
SetElementTextSource(h, n, text_source) == Raise(h, "AttributeError")

\* elements.py line 135: text is a property of Element without a setter, so
\* the assignment raises
SetText(h, n, text) ==
  IF h.err # "ok" THEN h ELSE Raise(h, "AttributeError")

\* previous_heading.append(n)
AppendCreated(h, n) ==
  IF h.err # "ok" THEN h ELSE append(h, h.parser.previous_heading, n)

\* lines 315-317: while parent.level >= level: parent = parent.parent
RECURSIVE HeadingClimb(_, _, _, _)
HeadingClimb(h, parent, level, seen) ==
  IF parent = None \/ parent = Unset
    THEN [err |-> "AttributeError", node |-> None]
  ELSE IF h.level[parent] = Unset
    THEN [err |-> "AttributeError", node |-> None]
  ELSE IF h.level[parent] < level THEN [err |-> "ok", node |-> parent]
  ELSE IF parent \in seen THEN [err |-> "hang", node |-> None]
  ELSE IF h.parent[parent] = Unset
    THEN [err |-> "AttributeError", node |-> None]
  ELSE HeadingClimb(h, h.parent[parent], level, seen \cup {parent})

\* lines 309-318: the node the heading is appended to; None when neither
\* branch is taken
HeadingTarget(h, level) ==
  IF h.parser.previous_heading = Doc THEN [err |-> "ok", node |-> Doc]
  ELSE IF h.kind[h.parser.previous_heading] = "Heading"
    THEN IF level > h.level[h.parser.previous_heading]
           THEN [err |-> "ok", node |-> h.parser.previous_heading]
           ELSE HeadingClimb(h, h.parent[h.parser.previous_heading],
                             level, {})
  ELSE [err |-> "ok", node |-> None]

\* lines 310, 313, 318: the append
HeadingAttach(h, target, cur_heading) ==
  IF h.err # "ok" THEN h
  ELSE IF target.err # "ok" THEN Raise(h, target.err)
  ELSE IF target.node = None THEN h
  ELSE append(h, target.node, cur_heading)

\* lines 319-322
HeadingFinish(h, cur_heading) ==
  IF h.err # "ok" THEN h
  ELSE [h EXCEPT !.main = IF h.level[cur_heading] = 1 THEN cur_heading ELSE @,
                 !.parser.previous_heading = cur_heading]

\* lines 308-322 for the heading cur_heading just constructed
HeadingPlace(h, cur_heading, level, text_source) ==
  HeadingFinish(
    HeadingAttach(SetElementTextSource(h, cur_heading, text_source),
                  HeadingTarget(h, level), cur_heading),
    cur_heading)

\* lines 306-322
_parse_heading_action(h, level, text, text_source) ==
  HeadingPlace(Construct(h, NewNode(h), "Heading", level, text),
               NewNode(h), level, text_source)

\* lines 125-127: jump_to_next after a two-line heading
HeadingJump(h, setext) ==
  IF h.err = "ok" /\ setext THEN [h EXCEPT !.parser.jump_to_next = TRUE]
  ELSE h

\* lines 119-133 for the heading m that HeadingMatch recognised
process_heading(h, m) ==
  IF m.level = 0 THEN h
  ELSE HeadingJump(_parse_heading_action(h, m.level, m.text, m.text_source),
                   m.setext)

\* lines 103-110
process_code_block_start(h, line) ==
  [h EXCEPT !.parser.in_code_block = TRUE,
            !.parser.code_language = CodeLanguage(line),
            !.parser.code_lines = <<>>]

\* lines 116-117
EndCodeBlockReset(h) ==
  IF h.err # "ok" THEN h
  ELSE [h EXCEPT !.parser.in_code_block = FALSE,
                 !.parser.code_language = <<>>]

\* lines 112-117; the language of the CodeBlock is not kept in the model
end_code_block(h) ==
  EndCodeBlockReset(
    AppendCreated(
      Construct(h, NewNode(h), "CodeBlock", Unset, join(h.parser.code_lines)),
      NewNode(h)))

\* lines 83-88: a line inside a code block
ProcessCodeLine(h, line) ==
  IF startswith(line, Fence) THEN end_code_block(h)
  ELSE [h EXCEPT !.parser.code_lines = Append(@, line)]

\* lines 150-155
handle_list(h, text) ==
  AppendCreated(Construct(h, NewNode(h), "Paragraph", Unset, text), NewNode(h))

\* lines 135-148
process_list(h, line) == handle_list(h, ListText(line))

\* lines 157-172
process_table(h, line, next_line) ==
  IF is_markdown_table_start(line, next_line)
    THEN [h EXCEPT !.parser.in_table_block = TRUE,
                   !.parser.table_type = "markdown",
                   !.parser.table_lines =
                     IF next_line # NoLine THEN <<line, next_line>>
                     ELSE <<line>>,
                   !.parser.jump_to_next = TRUE]
  ELSE IF IsHtmlTableStart(line)
    THEN [h EXCEPT !.parser.in_table_block = TRUE,
                   !.parser.table_type = "html",
                   !.parser.table_lines = <<line>>]
  ELSE h

\* the double quote
Quote == "\""

\* the rest of the pattern of line 260, \s*(?:"(.*?)")?\), matches line from
\* position j on: s is the position after the blanks
ImageTailAt(line, s) ==
  /\ s <= Len(line)
  /\ \/ line[s] = ")"
     \/ /\ line[s] = Quote
        /\ \E q \in (s + 1)..(Len(line) - 1) :
             line[q] = Quote /\ line[q + 1] = ")"
ImageTail(line, j) ==
  ImageTailAt(line, j + RunLen(DropChars(line, j - 1), {" ", "\t"}))

\* the groups of the pattern of line 260 on a line IsImage holds for: each
\* lazy group is the shortest the rest can match after
ImageGroups(line) ==
  LET i == CHOOSE i \in 3..(Len(line) - 1) :
             /\ line[i] = "]" /\ line[i + 1] = "("
             /\ \E j \in (i + 2)..Len(line) : ImageTail(line, j)
             /\ \A m \in 3..(i - 1) :
                  ~(/\ line[m] = "]" /\ line[m + 1] = "("
                    /\ \E j \in (m + 2)..Len(line) : ImageTail(line, j))
      j == CHOOSE j \in (i + 2)..Len(line) :
             /\ ImageTail(line, j)
             /\ \A m \in (i + 2)..(j - 1) : ~ImageTail(line, m)
      s == j + RunLen(DropChars(line, j - 1), {" ", "\t"})
      q == CHOOSE q \in (s + 1)..(Len(line) - 1) :
             /\ line[q] = Quote /\ line[q + 1] = ")"
             /\ \A m \in (s + 1)..(q - 1) :
                  ~(line[m] = Quote /\ line[m + 1] = ")")
  IN [alt |-> SubSeq(line, 3, i - 1),
      src |-> SubSeq(line, i + 2, j - 1),
      title |-> IF line[s] = Quote THEN SubSeq(line, s + 1, q - 1)
                ELSE NoLine]

\* str(x) in an f-string: None reads "None"
PyFormat(x) == IF x = NoLine THEN <<"N", "o", "n", "e">> ELSE x

\* Picture.element_text (elements.py 655-657) of Picture(src, alt_text,
\* title)
Picture_element_text(src, alt_text, title) ==
  <<"!", "[">> \o PyFormat(alt_text) \o <<"]", "(">> \o PyFormat(src)
    \o <<" ", Quote>> \o PyFormat(title) \o <<Quote, ")">>

\* lines 259-268; the node keeps the element_text of the Picture, which
\* src, alt_text and title fix
process_image(h, line) ==
  AppendCreated(
    Construct(h, NewNode(h), "Picture", Unset,
              Picture_element_text(ImageGroups(line).src, ImageGroups(line).alt,
                                   ImageGroups(line).title)),
    NewNode(h))

\* lines 270-276
process_paragraph(h, line) ==
  AppendCreated(Construct(h, NewNode(h), "Paragraph", Unset, line), NewNode(h))

\* ----------------------------------------------------------------- tables
\* the first position of sub in s, 0 if there is none
Find(s, sub) ==
  IF Contains(s, sub)
    THEN CHOOSE i \in 1..Len(s) :
           /\ SubSeq(s, i, i + Len(sub) - 1) = sub
           /\ \A j \in 1..(i - 1) : SubSeq(s, j, j + Len(sub) - 1) # sub
    ELSE 0

\* re.findall(open(.*?)close, s, re.DOTALL): the texts between each open and
\* the nearest close after it
RECURSIVE findall(_, _, _)
findall(s, open, close) ==
  IF Find(s, open) = 0 THEN <<>>
  ELSE IF Find(DropChars(s, Find(s, open) + Len(open) - 1), close) = 0
    THEN <<>>
  ELSE LET rest == DropChars(s, Find(s, open) + Len(open) - 1)
       IN <<SubSeq(rest, 1, Find(rest, close) - 1)>>
            \o findall(DropChars(rest, Find(rest, close) + Len(close) - 1),
                       open, close)

\* lines 237-253: the number of rows of an HTML table
HtmlRowCount(html) ==
  IF findall(html, <<"<", "t", "b", "o", "d", "y", ">">>, <<"<", "/", "t", "b", "o", "d", "y", ">">>) # <<>>
    THEN Len(findall(findall(html, <<"<", "t", "b", "o", "d", "y", ">">>, <<"<", "/", "t", "b", "o", "d", "y", ">">>)[1], <<"<", "t", "r", ">">>, <<"<", "/", "t", "r", ">">>))
    ELSE Len(SelectSeq(findall(html, <<"<", "t", "r", ">">>, <<"<", "/", "t", "r", ">">>),
                       LAMBDA tr : ~Contains(tr, <<"<", "t", "h", ">">>)))

\* [line.strip() for line in lines]
RECURSIVE StripAll(_)
StripAll(lines) ==
  IF lines = <<>> THEN <<>> ELSE <<strip(Head(lines))>> \o StripAll(Tail(lines))

\* lines 220 and 255; headers and col_number are not kept in the model
SetRowNumber(h, n, rows) ==
  IF h.err # "ok" THEN h ELSE [h EXCEPT !.row_number[n] = rows]

\* lines 217-222 for the stripped lines; a Table is constructed without text
MarkdownTableOf(h, lines) ==
  AppendCreated(
    SetRowNumber(
      SetText(Construct(h, NewNode(h), "Table", Unset, NoLine),
              NewNode(h), join(lines)),
      NewNode(h), Len(lines)),
    NewNode(h))

\* lines 211-222
parse_markdown_table(h) ==
  IF h.parser.table_lines = <<>> THEN Raise(h, "IndexError")
  ELSE MarkdownTableOf(h, StripAll(h.parser.table_lines))

\* lines 224-257
parse_html_table(h) ==
  AppendCreated(
    SetRowNumber(
      SetText(Construct(h, NewNode(h), "Table", Unset, NoLine),
              NewNode(h), join(h.parser.table_lines)),
      NewNode(h), HtmlRowCount(join(h.parser.table_lines))),
    NewNode(h))

\* lines 207-209
EndTableReset(h) ==
  IF h.err # "ok" THEN h
  ELSE [h EXCEPT !.parser.in_table_block = FALSE,
                 !.parser.table_type = "None",
                 !.parser.table_lines = <<>>]

\* lines 202-209; __init__ assigns no table_type, and reading it before
\* process_table did raises
end_table(h) ==
  IF h.parser.table_type = "unset" THEN Raise(h, "AttributeError")
  ELSE EndTableReset(IF h.parser.table_type = "markdown"
                       THEN parse_markdown_table(h)
                     ELSE IF h.parser.table_type = "html"
                       THEN parse_html_table(h)
                     ELSE h)

\* lines 191 and 194, 198: the row joins table_lines unless it ends a
\* Markdown table
TableRowBuffered(h, line) ==
  IF h.parser.table_type = "markdown"
    THEN IF strip(line) = <<>> \/ ~startswith(strip(line), <<"|">>)
           THEN h
           ELSE [h EXCEPT !.parser.table_lines = Append(@, line)]
  ELSE IF h.parser.table_type = "html"
    THEN [h EXCEPT !.parser.table_lines = Append(@, line)]
  ELSE h

\* lines 191, 195, 199: the row is the last one of the table
TableRowCloses(h, line, next_line) ==
  IF h.parser.table_type = "markdown"
    THEN \/ strip(line) = <<>>
         \/ ~startswith(strip(line), <<"|">>)
         \/ next_line = NoLine
         \/ next_line = <<>>
         \/ ~startswith(strip(next_line), <<"|">>)
  ELSE IF h.parser.table_type = "html"
    THEN Contains(line, <<"<", "/", "t", "a", "b", "l", "e", ">">>)
  ELSE FALSE

\* lines 188-200; line 189 reads table_type, which raises before
\* process_table assigned it
process_table_row(h, line, next_line) ==
  IF h.parser.table_type = "unset" THEN Raise(h, "AttributeError")
  ELSE IF TableRowCloses(h, line, next_line)
    THEN end_table(TableRowBuffered(h, line))
    ELSE TableRowBuffered(h, line)

\* ------------------------------------------------------------------ state
VARIABLES kind, parent, previous_element, next_element, previous_sibling,
          next_sibling, contents, own_contents, _decomposed, level, _text,
          row_number, main, parser, err, ret, op, pre, generator,
          slides, selected_style, layout_types, json_file, call,
          used_pictures

\* ChapterContentPage.used_pictures (pptpages.py 512) at import
NoPictures == [opaque |-> {}, transparent |-> {}]

\* the presentation (prs.slides), ChapterHomePage.selected_style, the
\* catalog of components_manager, the file save_to_json wrote, the last
\* call of the slide generator, and ChapterContentPage.used_pictures
gvars == <<slides, selected_style, layout_types, json_file, call,
           used_pictures>>
tvars == <<kind, parent, previous_element, next_element, previous_sibling,
           next_sibling, contents, own_contents, _decomposed, level, _text,
           row_number, main, parser>>
hvars == <<tvars, gvars>>
vars == <<kind, parent, previous_element, next_element, previous_sibling,
          next_sibling, contents, own_contents, _decomposed, level, _text,
          row_number, main, parser, err, ret, op, pre, generator,
          slides, selected_style, layout_types, json_file, call,
          used_pictures>>

\* the heap the operators read
Heap ==
  [kind |-> kind, parent |-> parent, previous_element |-> previous_element,
   next_element |-> next_element, previous_sibling |-> previous_sibling,
   next_sibling |-> next_sibling, contents |-> contents,
   own_contents |-> own_contents, _decomposed |-> _decomposed,
   level |-> level, _text |-> _text, row_number |-> row_number,
   main |-> main, parser |-> parser,
   err |-> "ok", ret |-> <<>>]

\* the state after a call that left heap h
Commit(h) ==
  /\ kind' = h.kind
  /\ parent' = h.parent
  /\ previous_element' = h.previous_element
  /\ next_element' = h.next_element
  /\ previous_sibling' = h.previous_sibling
  /\ next_sibling' = h.next_sibling
  /\ contents' = h.contents
  /\ own_contents' = h.own_contents
  /\ _decomposed' = h._decomposed
  /\ level' = h.level
  /\ _text' = h._text
  /\ row_number' = h.row_number
  /\ main' = h.main
  /\ parser' = h.parser
  /\ err' = h.err
  /\ ret' = IF h.err = "ok" THEN h.ret ELSE <<>>
  /\ UNCHANGED gvars

Receivers == Elems \cup {Doc}
\* the text a caller assigns to a node
NewTexts == {<<"X">>}
ArgValues == Elems \cup {Doc, None, StrArg}
Positions == (0 - 1)..MaxPos
ArgLists == UNION {[1..k -> ArgValues] : k \in 1..MaxArgs}
\* calls counts the calls made so far
NoOp ==
  [name |-> "init", self |-> None, position |-> 0, args |-> <<>>, calls |-> 0]

\* MarkdownParser.__init__ for the lines of a text; table_type is assigned
\* by process_table only
NewParser(strings, status) ==
  [strings |-> strings, index |-> 0, jump_to_next |-> FALSE,
   in_code_block |-> FALSE, in_table_block |-> FALSE, table_type |-> "unset",
   table_lines |-> <<>>, code_language |-> <<>>, code_lines |-> <<>>,
   previous_heading |-> Doc, status |-> status]

\* no presentation is open, no catalog is loaded and no file is written
NoCall ==
  [name |-> "none", content |-> <<>>, index |-> 0, number |-> 0,
   before |-> <<>>, style |-> None, count |-> 0]

NoPresentation ==
  /\ slides = <<>>
  /\ selected_style = None
  /\ used_pictures = NoPictures
  /\ layout_types = <<>>
  /\ json_file = <<>>
  /\ call = NoCall

\* Heading(), Paragraph(), ... call setup(); MarkdownDocument.__init__ calls
\* Element's constructor, which assigns no link
TreeInit ==
  /\ NoPresentation
  /\ kind = [n \in Node |-> IF n = Doc THEN "MarkdownDocument"
                            ELSE IF n \in Elems THEN "Heading" ELSE "free"]
  /\ parent = [n \in Node |-> IF n \in Elems THEN None ELSE Unset]
  /\ previous_element = [n \in Node |-> IF n \in Elems THEN None ELSE Unset]
  /\ next_element = [n \in Node |-> IF n \in Elems THEN None ELSE Unset]
  /\ previous_sibling = [n \in Node |-> IF n \in Elems THEN None ELSE Unset]
  /\ next_sibling = [n \in Node |-> IF n \in Elems THEN None ELSE Unset]
  /\ contents = <<>>
  /\ own_contents = [n \in Node |-> <<>>]
  /\ _decomposed = [n \in Node |-> FALSE]
  /\ level = [n \in Node |-> IF n \in Elems THEN 1 ELSE Unset]
  /\ _text = [n \in Node |-> IF n \in Elems THEN <<"h">> ELSE NoLine]
  /\ row_number = [n \in Node |-> 0]
  /\ main = None
  /\ parser = NewParser(<<>>, "none")
  /\ err = "ok"
  /\ ret = <<>>
  /\ op = NoOp
  /\ generator = NoGenerator
  /\ pre = Heap

\* no call is in progress: the caller has taken the last result, and makes
\* at most MaxTreeCalls calls
Idle == op.name = "init" /\ op.calls < MaxTreeCalls

\* a node that was wiped while a list still held it can be inserted again
\* without leaving that list, so lists can grow without end; the calls
\* explored are those that leave no list longer than MaxChildren
Bounded(h) ==
  /\ Len(h.contents) <= MaxChildren
  /\ \A n \in Node : Len(h.own_contents[n]) <= MaxChildren

DoAppend(self, element) ==
  /\ Idle
  /\ pre' = Heap
  /\ op' = [name |-> "append", self |-> self,
            position |-> Len(ContentsOf(Heap, self)), args |-> <<element>>,
            calls |-> op.calls + 1]
  /\ Bounded(append(Heap, self, element))
  /\ Commit(append(Heap, self, element))
  /\ UNCHANGED generator

DoInsert(self, position, new_children) ==
  /\ Idle
  /\ pre' = Heap
  /\ op' = [name |-> "insert", self |-> self, position |-> position,
            args |-> new_children, calls |-> op.calls + 1]
  /\ Bounded(insert(Heap, self, position, new_children))
  /\ Commit(insert(Heap, self, position, new_children))
  /\ UNCHANGED generator

DoExtract(self) ==
  /\ Idle
  /\ pre' = Heap
  /\ op' = [name |-> "extract", self |-> self, position |-> 0, args |-> <<>>,
            calls |-> op.calls + 1]
  /\ Bounded(extract(Heap, self))
  /\ Commit(extract(Heap, self))
  /\ UNCHANGED generator

DoDecompose(self) ==
  /\ Idle
  /\ pre' = Heap
  /\ op' = [name |-> "decompose", self |-> self, position |-> 0,
            args |-> <<>>, calls |-> op.calls + 1]
  /\ Bounded(decompose(Heap, self))
  /\ Commit(decompose(Heap, self))
  /\ UNCHANGED generator

\* clear(decompose=destroy); op.position records the flag
DoClear(self, destroy) ==
  /\ Idle
  /\ pre' = Heap
  /\ op' = [name |-> "clear", self |-> self,
            position |-> IF destroy THEN 1 ELSE 0, args |-> <<>>,
            calls |-> op.calls + 1]
  /\ Bounded(clear(Heap, self, destroy))
  /\ Commit(clear(Heap, self, destroy))
  /\ UNCHANGED generator

\* list(self.descendants): the generator is drained with no call on the tree
\* in between, as the loops of the repository drain it (pptgen.py 36 and 48,
\* __init__.py 35, elements.py 508)
DoDescendants(self) ==
  /\ Idle
  /\ pre' = Heap
  /\ op' = [name |-> "descendants", self |-> self, position |-> 0,
            args |-> <<>>, calls |-> op.calls + 1]
  /\ \E d \in {descendants(Heap, self)} : err' = d.err /\ ret' = d.list
  /\ UNCHANGED <<hvars, generator>>

\* g = self.descendants: the generator is created and none of its code runs;
\* the caller creates one generator
DoDescendantsGenerator(self) ==
  /\ Idle
  /\ generator.state = "none"
  /\ pre' = Heap
  /\ op' = [name |-> "generator", self |-> self, position |-> 0,
            args |-> <<>>, calls |-> op.calls + 1]
  /\ generator' = NewGenerator(self)
  /\ err' = "ok"
  /\ ret' = <<>>
  /\ UNCHANGED hvars

\* next(g) between two calls of the caller, on the tree as it is by then;
\* the caller asks for at most MaxYields nodes
DoNext ==
  /\ op.name = "init"
  /\ generator.state \in {"created", "suspended"}
  /\ Len(generator.yielded) < MaxYields
  /\ pre' = Heap
  /\ op' = [name |-> "next", self |-> generator.self, position |-> 0,
            args |-> <<>>, calls |-> op.calls]
  /\ \E r \in {next_descendant(Heap, generator)} :
       /\ generator' = r.generator
       /\ err' = r.err
       /\ ret' = r.ret
  /\ UNCHANGED hvars

\* self.setup() on a node that exists, with the arguments every call of the
\* repository passes: none.  The caller makes it on the document, the one
\* node no constructor has set up.
DoSetup(self) ==
  /\ Idle
  /\ pre' = Heap
  /\ op' = [name |-> "setup", self |-> self, position |-> 0, args |-> <<>>,
            calls |-> op.calls + 1]
  /\ Commit(setup(Heap, self, None, None, None, None, None))
  /\ UNCHANGED generator

\* self.heading_text = text; the headings start out alike, and the caller
\* assigns to the first of them
DoHeadingText(self, text) ==
  /\ Idle
  /\ kind[self] = "Heading"
  /\ pre' = Heap
  /\ op' = [name |-> "heading_text", self |-> self, position |-> 0,
            args |-> <<>>, calls |-> op.calls + 1]
  /\ Commit(heading_text(Heap, self, text))
  /\ UNCHANGED generator

\* the call returned and the caller goes on.  Nothing in the repository
\* catches an exception of these methods, so a raised exception ends the run,
\* and so does a call that never returns.
Return ==
  /\ op.name # "init"
  /\ err = "ok"
  /\ op' = [NoOp EXCEPT !.calls = op.calls]
  /\ err' = "ok"
  /\ ret' = <<>>
  /\ pre' = Heap
  /\ UNCHANGED <<hvars, generator>>

TreeNext ==
  \/ \E self \in Receivers, element \in ArgValues : DoAppend(self, element)
  \/ \E self \in Receivers, position \in Positions, new_children \in ArgLists :
       DoInsert(self, position, new_children)
  \/ \E self \in Receivers : DoExtract(self)
  \/ \E self \in Receivers : DoDecompose(self)
  \/ \E self \in Receivers, destroy \in BOOLEAN : DoClear(self, destroy)
  \/ \E self \in Receivers : DoDescendants(self)
  \/ \E self \in Receivers : DoDescendantsGenerator(self)
  \/ DoNext
  \/ \E self \in {Doc} : DoSetup(self)
  \/ \E self \in {FirstElem}, text \in NewTexts : DoHeadingText(self, text)
  \/ Return

Spec == TreeInit /\ [][TreeNext]_vars
\* ================================================================ parsing
\* the longest text of the lines below
MaxLines == 2

\* the lines the texts are made of
Lines ==
  {<<>>,
   <<"#", " ", "A">>,
   <<"#", "#", " ", "B">>,
   <<"#", "#", "#", " ", "C">>,
   <<"#", "#", " ", "D">>,
   <<" ", "#", " ", "A">>,
   <<"#", "A">>,
   <<"T", "i", "t", "l", "e">>,
   <<"#", " ", "T", "i", "t", "l", "e">>,
   <<"=", "=", "=", "=", "=">>,
   <<"-", "-", "-">>,
   <<"|", "a", "|", "b", "|">>,
   <<"|", "-", "-", "-", "|", "-", "-", "-", "|">>,
   <<"|", "-", "-", "-", ":", "|", "-", "-", "-", ":", "|">>,
   <<"|", "1", "|", "2", "|">>,
   <<Backquote, Backquote, Backquote, "p", "y">>,
   <<Backquote, Backquote, Backquote>>,
   <<"t", "e", "x", "t">>,
   <<"-", " ", "x">>,
   <<"1", ".", " ", "x">>,
   <<"!", "[", "a", "]", "(", "b", ")">>,
   <<"<", "t", "a", "b", "l", "e", ">">>,
   <<"<", "/", "t", "a", "b", "l", "e", ">">>}

\* "# A\n## B\n### C\n## D"
HeadingsExample ==
  <<<<"#", " ", "A">>,
   <<"#", "#", " ", "B">>,
   <<"#", "#", "#", " ", "C">>,
   <<"#", "#", " ", "D">>>>

\* "Title\n=====\n"
SetextExample ==
  <<<<"T", "i", "t", "l", "e">>,
   <<"=", "=", "=", "=", "=">>,
   <<>>>>

\* "# Title\n"
AtxExample ==
  <<<<"#", " ", "T", "i", "t", "l", "e">>,
   <<>>>>

\* "|a|b|\n|---|---|"
DashTableExample ==
  <<<<"|", "a", "|", "b", "|">>,
   <<"|", "-", "-", "-", "|", "-", "-", "-", "|">>>>

\* "|a|b|\ntext"
NoTableExample ==
  <<<<"|", "a", "|", "b", "|">>,
   <<"t", "e", "x", "t">>>>

\* "|a|b|\n|---:|---:|\n|1|2|\ntext"
ColonTableExample ==
  <<<<"|", "a", "|", "b", "|">>,
   <<"|", "-", "-", "-", ":", "|", "-", "-", "-", ":", "|">>,
   <<"|", "1", "|", "2", "|">>,
   <<"t", "e", "x", "t">>>>

\* "<table>\ntext\n</table>"
HtmlTableExample ==
  <<<<"<", "t", "a", "b", "l", "e", ">">>,
   <<"t", "e", "x", "t">>,
   <<"<", "/", "t", "a", "b", "l", "e", ">">>>>

\* a fenced code block: the fence with py, "text", the fence
CodeExample ==
  <<<<Backquote, Backquote, Backquote, "p", "y">>,
   <<"t", "e", "x", "t">>,
   <<Backquote, Backquote, Backquote>>>>

\* "|a|b|\n|---:|---:|\ntext"
TableThenTextExample ==
  <<<<"|", "a", "|", "b", "|">>,
   <<"|", "-", "-", "-", ":", "|", "-", "-", "-", ":", "|">>,
   <<"t", "e", "x", "t">>>>

Examples ==
  {HeadingsExample, SetextExample, AtxExample, DashTableExample,
   NoTableExample, ColonTableExample, HtmlTableExample, CodeExample,
   TableThenTextExample}

\* line 70: markdown_text.split("\n") has at least one line
Texts == (UNION {[1..k -> Lines] : k \in 1..MaxLines}) \cup Examples

\* MarkdownDocument.__init__ (no setup()) and MarkdownParser.__init__; parse
\* has split the text and is before the first line
ParseInit ==
  /\ NoPresentation
  /\ kind = [n \in Node |-> IF n = Doc THEN "MarkdownDocument" ELSE "free"]
  /\ parent = [n \in Node |-> Unset]
  /\ previous_element = [n \in Node |-> Unset]
  /\ next_element = [n \in Node |-> Unset]
  /\ previous_sibling = [n \in Node |-> Unset]
  /\ next_sibling = [n \in Node |-> Unset]
  /\ contents = <<>>
  /\ own_contents = [n \in Node |-> <<>>]
  /\ _decomposed = [n \in Node |-> FALSE]
  /\ level = [n \in Node |-> Unset]
  /\ _text = [n \in Node |-> NoLine]
  /\ row_number = [n \in Node |-> 0]
  /\ main = None
  /\ \E strings \in Texts : parser = NewParser(strings, "running")
  /\ err = "ok"
  /\ ret = <<>>
  /\ op = NoOp
  /\ generator = NoGenerator
  /\ pre = Heap

\* line 71: the loop has an iteration to run, and a constructor an object
\* to create
InLoop ==
  /\ parser.status = "running"
  /\ err = "ok"
  /\ parser.index < Len(parser.strings)
  /\ {n \in Node : kind[n] = "free"} # {}

\* lines 75-76
CurLine == parser.strings[parser.index + 1]
CurNext ==
  IF parser.index + 1 < Len(parser.strings)
    THEN parser.strings[parser.index + 2] ELSE NoLine

\* lines 77-80: the iteration goes to process_line outside a code block
Dispatch ==
  /\ InLoop
  /\ ~parser.jump_to_next
  /\ ~parser.in_table_block
  /\ ~parser.in_code_block

\* lines 90-101: the first handler that returns True
HandlerOf(line, next_line) ==
  IF IsCodeBlockStart(line) THEN "process_code_block_start"
  ELSE IF IsHeading(line, next_line) THEN "process_heading"
  ELSE IF IsList(line) THEN "process_list"
  ELSE IF IsTable(line, next_line) THEN "process_table"
  ELSE IF IsImage(line) THEN "process_image"
  ELSE IF IsParagraph(line) THEN "process_paragraph"
  ELSE "none"

\* line 80: process_line gets line.rstrip()
Handler == HandlerOf(rstrip(CurLine), CurNext)

\* line 71: the next iteration
Advance(h) ==
  IF h.err # "ok" THEN h ELSE [h EXCEPT !.parser.index = @ + 1]

ParseCommit(h) ==
  /\ Commit([h EXCEPT !.ret = <<>>])
  /\ UNCHANGED <<op, pre, generator>>

\* lines 72-74
SkipLine ==
  /\ InLoop
  /\ parser.jump_to_next
  /\ ParseCommit(Advance([Heap EXCEPT !.parser.jump_to_next = FALSE]))

\* lines 77-78
DoProcessTableRow ==
  /\ InLoop
  /\ ~parser.jump_to_next
  /\ parser.in_table_block
  /\ ParseCommit(Advance(process_table_row(Heap, CurLine, CurNext)))

\* lines 80 and 83-88
DoProcessCodeLine ==
  /\ InLoop
  /\ ~parser.jump_to_next
  /\ ~parser.in_table_block
  /\ parser.in_code_block
  /\ ParseCommit(Advance(ProcessCodeLine(Heap, CurLine)))

DoProcessCodeBlockStart ==
  /\ Dispatch
  /\ Handler = "process_code_block_start"
  /\ ParseCommit(Advance(process_code_block_start(Heap, rstrip(CurLine))))

DoProcessHeading ==
  /\ Dispatch
  /\ Handler = "process_heading"
  /\ ParseCommit(Advance(process_heading(Heap,
                           HeadingMatch(rstrip(CurLine), CurNext))))

DoProcessList ==
  /\ Dispatch
  /\ Handler = "process_list"
  /\ ParseCommit(Advance(process_list(Heap, rstrip(CurLine))))

DoProcessTable ==
  /\ Dispatch
  /\ Handler = "process_table"
  /\ ParseCommit(Advance(process_table(Heap, rstrip(CurLine), CurNext)))

DoProcessImage ==
  /\ Dispatch
  /\ Handler = "process_image"
  /\ ParseCommit(Advance(process_image(Heap, rstrip(CurLine))))

DoProcessParagraph ==
  /\ Dispatch
  /\ Handler = "process_paragraph"
  /\ ParseCommit(Advance(process_paragraph(Heap, rstrip(CurLine))))

\* lines 99-101: no handler takes a blank line
BlankLine ==
  /\ Dispatch
  /\ Handler = "none"
  /\ ParseCommit(Advance(Heap))

\* document.setup() by the caller of MarkdownParser(document).parse(text),
\* before the parse
DoDocumentSetup ==
  /\ parser.status = "running"
  /\ err = "ok"
  /\ parser.index = 0
  /\ ~parser.jump_to_next
  /\ parent[Doc] = Unset
  /\ ParseCommit(setup(Heap, Doc, None, None, None, None, None))

\* n.heading_text = text or n.element_text = text on a node of the parsed
\* document, after parse has returned
DoAssignParsedText(n, text) ==
  /\ parser.status = "done"
  /\ err = "ok"
  /\ kind[n] \notin {"free", "MarkdownDocument"}
  /\ ParseCommit(AssignText(Heap, n, text))

\* line 71: the loop is over and parse returns
ParseReturn ==
  /\ parser.status = "running"
  /\ err = "ok"
  /\ parser.index = Len(parser.strings)
  /\ ParseCommit([Heap EXCEPT !.parser.status = "done"])

ParseNext ==
  \/ SkipLine
  \/ DoProcessTableRow
  \/ DoProcessCodeLine
  \/ DoProcessCodeBlockStart
  \/ DoProcessHeading
  \/ DoProcessList
  \/ DoProcessTable
  \/ DoProcessImage
  \/ DoProcessParagraph
  \/ BlankLine
  \/ ParseReturn
  \/ DoDocumentSetup
  \/ \E n \in Node, text \in NewTexts : DoAssignParsedText(n, text)

ParseSpec == ParseInit /\ [][ParseNext]_vars

\* ======================================================== slide generator
\* the slots of the largest catalog template and the longest chapter list
MaxSlots == 2
MaxChapters == 4
\* the shapes a catalog template holds besides its chapter numbers
MaxOthers == 4

\* ----------------------------------------------------- numbers as strings
DecimalDigits == <<"0", "1", "2", "3", "4", "5", "6", "7", "8", "9">>

\* str(n) for n >= 0
RECURSIVE Str(_)
Str(n) ==
  IF n < 10 THEN <<DecimalDigits[n + 1]>>
  ELSE Str(n \div 10) \o <<DecimalDigits[(n % 10) + 1]>>

\* str.zfill(width)
RECURSIVE zfill(_, _)
zfill(text, width) ==
  IF Len(text) >= width THEN text ELSE zfill(<<"0">> \o text, width)

\* str.isdigit()
isdigit(text) ==
  /\ text # <<>>
  /\ \A i \in DOMAIN text : \E d \in DOMAIN DecimalDigits :
       DecimalDigits[d] = text[i]

DigitValue(c) == (CHOOSE d \in DOMAIN DecimalDigits : DecimalDigits[d] = c) - 1

\* int(text) for a text of digits
RECURSIVE int(_)
int(text) ==
  IF text = <<>> THEN 0
  ELSE 10 * int(SubSeq(text, 1, Len(text) - 1)) + DigitValue(text[Len(text)])

\* ------------------------------------------------------- the presentation
\* A slide: the layout it was created from, whether it is a slide of the
\* template or one the generator added, the text of its title placeholder,
\* the text of the chapter-number shape (home page) and its other shapes in
\* paint order (the shapes of a catalog slide, the shapes inserted from a
\* style on a content page).
NewSlide(layout, source) ==
  [layout |-> layout, source |-> source, title |-> <<>>, number |-> <<>>,
   shapes |-> <<>>]

\* the state the generator works on: prs.slides and the class attribute
\* ChapterHomePage.selected_style
GRaise(g, e) == [g EXCEPT !.err = e]

\* prs.slides.add_slide(layout): the new slide is the last of the deck
add_slide(g, layout) ==
  [g EXCEPT !.slides = Append(@, NewSlide(layout, "generated"))]

\* Page.remove_slide (pptpages.py 52-58): the index is one of a Python
\* list, 0-based, a negative one counting from the end
remove_slide(g, idx) ==
  IF g.err # "ok" THEN g
  ELSE IF idx >= Len(g.slides) \/ idx < 0 - Len(g.slides)
    THEN GRaise(g, "IndexError")
  ELSE IF idx < 0 THEN [g EXCEPT !.slides = DelAt(@, Len(g.slides) + idx + 1)]
  ELSE [g EXCEPT !.slides = DelAt(@, idx + 1)]

\* Page.move_slide (pptpages.py 78-92): the slide at 1-based position old
\* is removed and inserted at the 0-based index (list insert rules)
move_slide(g, old, idx) ==
  IF g.err # "ok" THEN g
  ELSE [g EXCEPT !.slides = PyListInsert(DelAt(@, old), idx, g.slides[old])]

\* Page.duplicate_slide (pptpages.py 94-130): a new last slide with copies of
\* the shapes of the slide at the 0-based index
duplicate_slide(g, idx) ==
  [g EXCEPT !.slides =
     Append(@, [g.slides[idx + 1] EXCEPT !.source = "generated"])]

\* ------------------------------------------------------------ catalog page
\* the largest chapter number _get_catalog_items accepts (line 264)
NumberCap == 49

\* line 414
CatalogReturn(g, catalog_page_index) ==
  IF g.err # "ok" THEN g ELSE [g EXCEPT !.ret = catalog_page_index]

\* a shape of a slide: its text frame and text, position and size; shape_id
\* tells the shapes of one slide apart
ShapeAt(text, frame, left, top, width, height) ==
  [text |-> text, has_text_frame |-> frame, is_placeholder |-> FALSE,
   left |-> left, top |-> top, width |-> width, height |-> height,
   shape_id |-> 0]

\* the shape of a slide with the given id, and the ids in paint order
ShapeOf(slide, id) ==
  slide.shapes[CHOOSE i \in DOMAIN slide.shapes : slide.shapes[i].shape_id = id]
ShapeIds(slide) == [i \in DOMAIN slide.shapes |-> slide.shapes[i].shape_id]

\* pptpages.py 240-257: all_shapes, the shapes that are no placeholders, and
\* text_shapes, those of them with a text frame
all_shapes(slide) ==
  SelectSeq(ShapeIds(slide), LAMBDA id : ~ShapeOf(slide, id).is_placeholder)
text_shapes(slide) ==
  SelectSeq(all_shapes(slide), LAMBDA id : ShapeOf(slide, id).has_text_frame)

\* lines 258-266: the text of a shape reads as a chapter number
IsChapterNumber(text) ==
  /\ Len(text) <= 3
  /\ \/ isdigit(text)
     \/ /\ endswith(text, <<".">>)
        /\ isdigit(SubSeq(text, 1, Len(text) - 1))
  /\ int(SelectSeq(text, LAMBDA c : c # ".")) <= NumberCap

\* the order of Python's tuples of numbers
RECURSIVE TupleLE(_, _)
TupleLE(a, b) ==
  IF a = <<>> THEN TRUE
  ELSE IF b = <<>> THEN FALSE
  ELSE IF Head(a) # Head(b) THEN Head(a) < Head(b)
  ELSE TupleLE(Tail(a), Tail(b))

\* list.sort and sorted with a key of tuples, by insertion; equal keys keep
\* their order
RECURSIVE SortByKey(_, _, _)
SortByKey(key, todo, done) ==
  IF todo = <<>> THEN done
  ELSE SortByKey(key, Tail(todo),
         PyListInsert(done,
           Cardinality({i \in DOMAIN done : TupleLE(key[done[i]], key[Head(todo)])}),
           Head(todo)))

\* lines 258-270: number_shapes in ascending order of int(text); int raises
\* on a text that ends with a dot
number_shapes(slide) ==
  LET found == SelectSeq(text_shapes(slide),
                 LAMBDA id : IsChapterNumber(strip(ShapeOf(slide, id).text)))
      texts == [id \in Range(found) |-> strip(ShapeOf(slide, id).text)]
  IN IF \E id \in Range(found) : ~isdigit(texts[id])
       THEN [err |-> "PPTTemplateError", list |-> <<>>]
       ELSE [err |-> "ok",
             list |-> SortByKey([id \in Range(found) |-> <<int(texts[id])>>],
                                found, <<>>)]

Abs(x) == IF x < 0 THEN 0 - x ELSE x

RECURSIVE SumOf(_)
SumOf(s) == IF s = <<>> THEN 0 ELSE Head(s) + SumOf(Tail(s))

\* CatalogPage._layout_direction (pptpages.py 215-233) for two or more
\* numbers: the averages are over the same count, so the sums compare alike
_layout_direction(slide, numbers) ==
  LET sorted_numbers ==
        SortByKey([id \in Range(numbers) |->
                     <<ShapeOf(slide, id).left, ShapeOf(slide, id).top>>],
                  numbers, <<>>)
      horizontal_diffs ==
        [i \in 1..(Len(numbers) - 1) |->
           Abs(ShapeOf(slide, sorted_numbers[i + 1]).left
                 - ShapeOf(slide, sorted_numbers[i]).left)]
      vertical_diffs ==
        [i \in 1..(Len(numbers) - 1) |->
           Abs(ShapeOf(slide, sorted_numbers[i + 1]).top
                 - ShapeOf(slide, sorted_numbers[i]).top)]
  IN IF SumOf(horizontal_diffs) > SumOf(vertical_diffs)
       THEN "horizontal" ELSE "vertical"

\* lines 272-278
LayoutOf(slide, numbers) ==
  IF Len(numbers) = 1 THEN "undefined" ELSE _layout_direction(slide, numbers)

\* CatalogPage._calculate_distance (pptpages.py 210-212), squared: the root
\* of the code keeps the order of these sums
SquaredDistance(shape1, shape2) ==
  (shape1.left - shape2.left) * (shape1.left - shape2.left)
    + (shape1.top - shape2.top) * (shape1.top - shape2.top)

\* lines 286-310: the direction test of a text shape for a number shape
DirectionTest(layout_direction, number_shape, text_shape) ==
  CASE layout_direction = "horizontal" ->
         /\ text_shape.top > number_shape.top
         /\ Min2(number_shape.left + number_shape.width,
                 text_shape.left + text_shape.width)
              - Max2(number_shape.left, text_shape.left) > 0
    [] layout_direction = "vertical" ->
         /\ text_shape.left > number_shape.left
         /\ Min2(number_shape.top + number_shape.height,
                 text_shape.top + text_shape.height)
              - Max2(number_shape.top, text_shape.top) > 0
    [] OTHER -> TRUE

\* lines 282-315: the first of the nearest candidates that pass the
\* direction test, None without one; the candidates are except_number_shapes
\* whatever was paired before
closest_text_shape(slide, layout_direction, candidates, number) ==
  LET passing == {k \in DOMAIN candidates :
                    DirectionTest(layout_direction, ShapeOf(slide, number),
                                  ShapeOf(slide, candidates[k]))}
      far(k) == SquaredDistance(ShapeOf(slide, number),
                                ShapeOf(slide, candidates[k]))
  IN IF passing = {} THEN None
     ELSE candidates[CHOOSE k \in passing :
            \A j \in passing : far(k) < far(j) \/ (far(k) = far(j) /\ k <= j)]

Without(s, x) == SelectSeq(s, LAMBDA y : y # x)

\* lines 280-325: every number shape with the closest text shape; both leave
\* all_shapes, and a text shape that left it before raises
RECURSIVE PairNumbers(_, _, _, _, _)
PairNumbers(slide, layout_direction, candidates, todo, st) ==
  IF todo = <<>> \/ st.err # "ok" THEN st
  ELSE LET number == Head(todo)
           closest == closest_text_shape(slide, layout_direction, candidates,
                                         number)
       IN PairNumbers(slide, layout_direction, candidates, Tail(todo),
            IF closest = None THEN st
            ELSE IF closest \notin Range(st.all)
              THEN [st EXCEPT !.err = "PPTTemplateError"]
            ELSE [st EXCEPT
                    !.all = Without(Without(@, number), closest),
                    !.list = Append(@, [number_shape |-> number,
                                        text_shape |-> closest,
                                        background_shape |-> None])])

\* lines 333-341: the scan for the background shape of a number; far is
\* min_distance, below zero for infinity
RECURSIVE closest_background_shape(_, _, _, _, _)
closest_background_shape(slide, number, todo, far, closest) ==
  IF todo = <<>> THEN closest
  ELSE LET shape_info == ShapeOf(slide, Head(todo))
           distance == SquaredDistance(ShapeOf(slide, number), shape_info)
       IN IF far < 0 \/ distance < far
            THEN closest_background_shape(slide, number, Tail(todo), distance,
                   IF 4 * distance < 9 * shape_info.height * shape_info.height
                     THEN Head(todo) ELSE closest)
            ELSE closest_background_shape(slide, number, Tail(todo), far,
                                          closest)

\* lines 330-342
WithBackgrounds(slide, numbers, st) ==
  IF Len(st.all) < Len(numbers) THEN st.list
  ELSE [i \in DOMAIN st.list |->
          [st.list[i] EXCEPT !.background_shape =
             closest_background_shape(slide, numbers[i], st.all, 0 - 1, None)]]

\* lines 280-344 with the sorted number shapes
CatalogItems(slide, numbers) ==
  LET st == PairNumbers(slide, LayoutOf(slide, numbers),
              SelectSeq(text_shapes(slide), LAMBDA id : id \notin Range(numbers)),
              numbers,
              [all |-> all_shapes(slide), list |-> <<>>, err |-> "ok"])
  IN IF st.err # "ok" THEN [err |-> st.err, list |-> <<>>]
     ELSE IF Len(st.list) # Len(numbers)
       THEN [err |-> "AssertionError", list |-> <<>>]
     ELSE [err |-> "ok", list |-> WithBackgrounds(slide, numbers, st)]

\* CatalogPage._get_catalog_items (pptpages.py 236-344) on the shapes of a
\* slide: the CatalogList, items of shape ids
_get_catalog_items(slide) ==
  LET numbers == number_shapes(slide)
  IN IF numbers.err # "ok" THEN numbers
     ELSE IF numbers.list = <<>>
       THEN [err |-> "PPTTemplateError", list |-> <<>>]
     ELSE CatalogItems(slide, numbers.list)

\* Page.remove_shapes (pptpages.py 61-64): the element of every shape leaves
\* the tree; one that left it before raises
RECURSIVE remove_shapes(_, _)
remove_shapes(st, todo) ==
  IF todo = <<>> \/ st.err # "ok" THEN st
  ELSE remove_shapes(
         IF Head(todo) \in Range(ShapeIds(st.slide))
           THEN [st EXCEPT !.slide.shapes =
                   SelectSeq(@, LAMBDA s : s.shape_id # Head(todo))]
           ELSE [st EXCEPT !.err = "ValueError"],
         Tail(todo))

\* lines 376-383: the shapes of a catalog item
ItemShapes(item) ==
  <<item.number_shape, item.text_shape>>
    \o (IF item.background_shape # None THEN <<item.background_shape>>
        ELSE <<>>)

RECURSIVE Flatten(_)
Flatten(ss) == IF ss = <<>> THEN <<>> ELSE Head(ss) \o Flatten(Tail(ss))

\* lines 371-384: the items beyond catalog_num are removed from the slide
RemoveExcess(slide, items, catalog_num) ==
  remove_shapes([slide |-> slide, err |-> "ok"],
                Flatten([i \in 1..(Len(items) - Min2(Len(items), catalog_num)) |->
                           ItemShapes(items[Min2(Len(items), catalog_num) + i])]))

\* Page._set_text (pptpages.py 33-50) on a shape with text
SetShapeText(slide, id, text) ==
  [slide EXCEPT !.shapes =
     [i \in DOMAIN @ |-> IF @[i].shape_id = id THEN [@[i] EXCEPT !.text = text]
                         ELSE @[i]]]

\* line 389 reads content[i].element_text: a node wiped by decompose() has
\* lost what the property reads, and a MarkdownDocument has no such property
HasElementText(h, n) ==
  h.kind[n] # "MarkdownDocument" /\ h._text[n] # NoAttribute

\* lines 388-400: item i of the kept ones gets the title of content[i] and
\* the number begin_number + i, zero-padded; the read of line 389 that fails
\* leaves item i and the items after it as they were
RECURSIVE FillItems(_, _, _, _, _, _)
FillItems(h, slide, items, content, begin_number, i) ==
  IF i > Min2(Len(items), Len(content)) THEN [slide |-> slide, err |-> "ok"]
  ELSE IF ~HasElementText(h, content[i])
    THEN [slide |-> slide, err |-> "AttributeError"]
  ELSE FillItems(h,
         SetShapeText(
           SetShapeText(slide, items[i].text_shape, h._text[content[i]]),
           items[i].number_shape, zfill(Str(begin_number + i - 1), 2)),
         items, content, begin_number, i + 1)

RECURSIVE CatalogPage_generate_slide(_, _, _, _, _)
\* lines 401-414 after count items were filled
CatalogSlideOverflow(g, h, content, catalog_page_index, begin_number, count) ==
  IF begin_number + count - 1 < Len(content)
    THEN CatalogReturn(
           CatalogPage_generate_slide(
             move_slide(duplicate_slide(g, catalog_page_index),
                        Len(g.slides) + 1, catalog_page_index + 1),
             h, SubSeq(content, count + 1, Len(content)),
             catalog_page_index + 1, begin_number + count),
           catalog_page_index + 1)
    ELSE CatalogReturn(g, catalog_page_index)

\* lines 401-414 on the slide the loop of lines 388-400 left, unless the
\* loop raised
CatalogSlideFilled(g, h, content, catalog_page_index, begin_number, count, filled) ==
  IF filled.err # "ok"
    THEN GRaise([g EXCEPT !.slides[catalog_page_index + 1] = filled.slide],
                filled.err)
  ELSE CatalogSlideOverflow(
         [g EXCEPT !.slides[catalog_page_index + 1] = filled.slide],
         h, content, catalog_page_index, begin_number, count)

\* lines 388-400 on the slide the excess items were removed from
CatalogSlideFill(g, h, content, catalog_page_index, begin_number, items, cut) ==
  IF cut.err # "ok"
    THEN GRaise([g EXCEPT !.slides[catalog_page_index + 1] = cut.slide],
                cut.err)
  ELSE CatalogSlideFilled(g, h, content, catalog_page_index, begin_number,
         Min2(Len(items), Len(content)),
         FillItems(h, cut.slide, items, content, begin_number, 1))

\* lines 369-386 with the catalog list of the slide
CatalogSlideCut(g, h, content, catalog_page_index, begin_number, found) ==
  IF found.err # "ok" THEN GRaise(g, found.err)
  ELSE CatalogSlideFill(g, h, content, catalog_page_index, begin_number,
         found.list,
         RemoveExcess(g.slides[catalog_page_index + 1], found.list,
                      Len(content)))

\* CatalogPage.generate_slide (pptpages.py 347-414) on the shapes of the
\* catalog slide
CatalogPage_generate_slide(g, h, content, catalog_page_index, begin_number) ==
  IF g.err # "ok" THEN g
  ELSE IF content = <<>> THEN GRaise(g, "PPTGenError")
  ELSE IF catalog_page_index >= Len(g.slides) THEN GRaise(g, "IndexError")
  ELSE CatalogSlideCut(g, h, content, catalog_page_index, begin_number,
                       _get_catalog_items(g.slides[catalog_page_index + 1]))

\* ------------------------------------------------------ catalog templates
\* the layouts the chapter numbers of a template are set in
Directions == {"vertical", "horizontal"}

\* a shape of a vertical template, turned for a horizontal one
Turned(direction, shape) ==
  IF direction = "vertical" THEN shape
  ELSE [shape EXCEPT !.left = shape.top, !.top = shape.left,
                     !.width = shape.height, !.height = shape.width]

\* the chapter number of slot i, the label beside it and the box behind it
NumberOfSlot(i) == ShapeAt(Str(i), TRUE, 1, 4 * i - 3, 2, 2)
LabelOfSlot(i) == ShapeAt(<<"x">>, TRUE, 4, 4 * i - 3, 4, 2)
BoxOfSlot(i) == ShapeAt(<<>>, FALSE, 1, 4 * i - 3, 2, 2)
\* a label that spans the first two slots, a label beside all slots and a
\* panel behind all slots
WideLabel == ShapeAt(<<"y">>, TRUE, 4, 2, 4, 5)
FarLabel == ShapeAt(<<"z">>, TRUE, 8, 1, 4, 4 * MaxSlots)
Panel == ShapeAt(<<>>, FALSE, 0, 0, 10, 4 * MaxSlots + 2)

OtherShapes ==
  [i \in 1..MaxSlots |-> LabelOfSlot(i)] \o [i \in 1..MaxSlots |-> BoxOfSlot(i)]
    \o <<WideLabel, FarLabel, Panel>>

Reversed(s) == [i \in DOMAIN s |-> s[Len(s) + 1 - i]]

\* up to MaxOthers of the other shapes, painted in their order or against it
OtherChoices ==
  LET picked == {SelectSeq([i \in DOMAIN OtherShapes |-> i],
                           LAMBDA i : i \in S) :
                   S \in {T \in SUBSET DOMAIN OtherShapes :
                            Cardinality(T) <= MaxOthers}}
      drawn == {[k \in DOMAIN p |-> OtherShapes[p[k]]] : p \in picked}
  IN drawn \cup {Reversed(s) : s \in drawn}

\* the catalog slide of a template: m chapter numbers, then the other shapes
CatalogTemplate(direction, m, others) ==
  LET drawn == [i \in 1..m |-> NumberOfSlot(i)] \o others
  IN [NewSlide("catalog", "template") EXCEPT
        !.shapes = [i \in DOMAIN drawn |->
                      [Turned(direction, drawn[i]) EXCEPT !.shape_id = i]]]

CatalogTemplates ==
  {CatalogTemplate(direction, m, others) :
     direction \in Directions, m \in 1..MaxSlots, others \in OtherChoices}

\* ------------------------------------------------------- text of a node
\* Heading._all_strings(strip=False) (elements.py 507-514) over the
\* descendants d, taken from the generator one by one: a Heading among the
\* nodes yielded is asked for element_text_source, a property that reads
\* itself (lines 516-520) and never returns a value, before the walk goes
\* on; line 510 reads element_text first, which a node wiped by decompose()
\* no longer has; the other nodes give their element_text, empty ones and
\* None (a Table without text) are left out by line 513
HeadingStrings(h, d) ==
  IF \E i \in DOMAIN d.yielded :
       h.kind[d.yielded[i]] = "Heading" \/ h._text[d.yielded[i]] = NoAttribute
    THEN LET first == CHOOSE i \in DOMAIN d.yielded :
                        /\ \/ h.kind[d.yielded[i]] = "Heading"
                           \/ h._text[d.yielded[i]] = NoAttribute
                        /\ \A j \in 1..(i - 1) :
                             /\ h.kind[d.yielded[j]] # "Heading"
                             /\ h._text[d.yielded[j]] # NoAttribute
         IN IF h._text[d.yielded[first]] = NoAttribute
              THEN [err |-> "AttributeError", text |-> <<>>]
              ELSE [err |-> "RecursionError", text |-> <<>>]
  ELSE IF d.err # "ok" THEN [err |-> d.err, text |-> <<>>]
  ELSE [err |-> "ok",
        text |-> join(SelectSeq([i \in DOMAIN d.list |-> h._text[d.list[i]]],
                                LAMBDA t : t # <<>> /\ t # NoLine))]

\* MarkdownDocument._all_strings(strip=False) (__init__.py 34-40): the
\* first descendant the generator yields is asked for element_text_source,
\* which a Heading never returns and no other class has
DocumentStrings(h, d) ==
  IF d.yielded # <<>>
    THEN IF h.kind[d.yielded[1]] = "Heading"
           THEN [err |-> "RecursionError", text |-> <<>>]
           ELSE [err |-> "AttributeError", text |-> <<>>]
  ELSE [err |-> d.err, text |-> <<>>]

\* Element.get_text() with its defaults, which is the property text
\* (elements.py 114-135): Paragraph, CodeBlock, Table and Picture yield a
\* local they assign only when strip is true (lines 555-562, 594-599,
\* 631-636, 666-671)
get_text(h, n) ==
  IF h.kind[n] = "Heading" THEN HeadingStrings(h, descendants(h, n))
  ELSE IF h.kind[n] = "MarkdownDocument"
    THEN DocumentStrings(h, descendants(h, n))
  ELSE [err |-> "UnboundLocalError", text |-> <<>>]

\* [child.text for child in content.children] (pptpages.py 582)
RECURSIVE SectionTexts(_, _, _)
SectionTexts(h, cs, acc) ==
  IF cs = <<>> THEN [err |-> "ok", texts |-> acc]
  ELSE IF get_text(h, Head(cs)).err # "ok"
    THEN [err |-> get_text(h, Head(cs)).err, texts |-> <<>>]
  ELSE SectionTexts(h, Tail(cs), Append(acc, get_text(h, Head(cs)).text))

\* [child.element_text for child in content.children] (pptpages.py 581)
SectionTitles(h, cs) == [i \in DOMAIN cs |-> h._text[cs[i]]]

\* ------------------------------------------------- placeholders of layouts
\* the layouts of the template whose slides get a title placeholder
TitleLayouts == {"cover", "catalog", "home", "content", "end"}
\* the layouts whose slides get a text shape above the title
NumberLayouts == {"home"}

\* ------------------------------------------------------------- cover page
\* CoverPage.generate_slide (pptpages.py 136-161)
CoverPage_generate_slide(g, h, content, cover_page_index) ==
  IF g.err # "ok" THEN g
  ELSE IF cover_page_index >= Len(g.slides) THEN GRaise(g, "IndexError")
  ELSE IF h.level[content] = Unset THEN GRaise(g, "AttributeError")
  ELSE IF h.level[content] # 1 THEN GRaise(g, "AssertionError")
  ELSE IF g.slides[cover_page_index + 1].layout \notin TitleLayouts
    THEN GRaise(g, "PPTTemplateError")
  ELSE [g EXCEPT !.slides[cover_page_index + 1].title =
          IF strip(h._text[content]) = <<>>
            THEN <<"P", "r", "e", "s", "e", "n", "t", "a", "t", "i", "o", "n",
                   " ", "T", "i", "t", "l", "e">>
            ELSE h._text[content]]

\* ------------------------------------------------------ chapter home page
\* inflect's number_to_words(n).upper() for the chapter numbers of the model
NumberWords ==
  <<<<"O", "N", "E">>, <<"T", "W", "O">>, <<"T", "H", "R", "E", "E">>,
    <<"F", "O", "U", "R">>, <<"F", "I", "V", "E">>, <<"S", "I", "X">>,
    <<"S", "E", "V", "E", "N">>, <<"E", "I", "G", "H", "T">>,
    <<"N", "I", "N", "E">>, <<"T", "E", "N">>>>

Part == <<"P", "A", "R", "T", " ">>

\* lines 494-501
RenderChapterNumber(style_type, chapter_number) ==
  IF style_type = 1 THEN zfill(Str(chapter_number), 2)
  ELSE IF style_type = 2 THEN Part \o zfill(Str(chapter_number), 2)
  ELSE Part \o NumberWords[chapter_number]

\* convert_chapter_number drawing a style at every call
convert_chapter_number_redrawn(g, chapter_number, randint) ==
  IF g.err # "ok" THEN g
  ELSE [g EXCEPT !.selected_style = randint,
                 !.ret = RenderChapterNumber(randint, chapter_number)]

\* ChapterHomePage.convert_chapter_number (pptpages.py 482-501); randint is
\* the value random.randint(1, 3) would return
convert_chapter_number(g, chapter_number, randint) ==
  IF g.err # "ok" THEN g
  ELSE IF g.selected_style # None
    THEN [g EXCEPT !.ret = RenderChapterNumber(g.selected_style,
                                               chapter_number)]
  ELSE [g EXCEPT !.selected_style = randint,
                 !.ret = RenderChapterNumber(randint, chapter_number)]

\* lines 477-480: the number shape, if the slide has one, gets the rendered
\* number, and the slide goes to slide_index
HomeNumber(g, chapter_number, slide_index, randint) ==
  IF g.slides[Len(g.slides)].layout \in NumberLayouts
    THEN move_slide(
           [convert_chapter_number(g, chapter_number, randint)
              EXCEPT !.slides[Len(g.slides)].number =
                       convert_chapter_number(g, chapter_number, randint).ret,
                     !.ret = <<>>],
           Len(g.slides), slide_index)
    ELSE move_slide(g, Len(g.slides), slide_index)

\* lines 443-457: the new slide and its title
HomeTitle(g, h, content, chapter_number, slide_index, randint) ==
  IF g.slides[Len(g.slides)].layout \notin TitleLayouts
    THEN GRaise(g, "PPTTemplateError")
    ELSE HomeNumber([g EXCEPT !.slides[Len(g.slides)].title = h._text[content]],
                    chapter_number, slide_index, randint)

\* ChapterHomePage.generate_slide (pptpages.py 422-480)
ChapterHomePage_generate_slide(g, h, content, chapter_home_page_index, chapter_number, slide_index, randint) ==
  IF g.err # "ok" THEN g
  ELSE IF h.level[content] = Unset THEN GRaise(g, "AttributeError")
  ELSE IF h.level[content] # 2 THEN GRaise(g, "AssertionError")
  ELSE IF chapter_home_page_index >= Len(g.slides)
    THEN GRaise(g, "IndexError")
  ELSE HomeTitle(add_slide(g, g.slides[chapter_home_page_index + 1].layout),
                 h, content, chapter_number, slide_index, randint)

\* ---------------------------------------------------------------- end page
\* lines 677-690 for the text of the title
EndTitle(g, title, slide_index) ==
  IF g.slides[Len(g.slides)].layout \notin TitleLayouts
    THEN GRaise(g, "PPTTemplateError")
    ELSE move_slide([g EXCEPT !.slides[Len(g.slides)].title = title],
                    Len(g.slides), slide_index)

\* EndPage.generate_slide (pptpages.py 667-690) without content: the title
\* is that of Heading(text="Thank you!", level=2)
EndPage_generate_slide(g, end_page_index, slide_index) ==
  IF g.err # "ok" THEN g
  ELSE IF end_page_index >= Len(g.slides) THEN GRaise(g, "IndexError")
  ELSE EndTitle(add_slide(g, g.slides[end_page_index + 1].layout),
                <<"T", "h", "a", "n", "k", " ", "y", "o", "u", "!">>,
                slide_index)

\* --------------------------------------------------------- layout catalog
\* A dict is the sequence of its items in insertion order, its keys
\* pairwise different.
Keys(dict) == [i \in DOMAIN dict |-> dict[i].key]
HasKey(dict, key) == \E i \in DOMAIN dict : dict[i].key = key
\* dict[key] for a key of the dict
Get(dict, key) == dict[CHOOSE i \in DOMAIN dict : dict[i].key = key].value
\* dict[key] = value
Put(dict, key, value) ==
  IF HasKey(dict, key)
    THEN [i \in DOMAIN dict |->
            IF dict[i].key = key THEN [key |-> key, value |-> value]
            ELSE dict[i]]
    ELSE Append(dict, [key |-> key, value |-> value])

\* ChapterLayout (components.py 55-70): the str_value of the member for a
\* number of points
ChapterLayoutNames == <<"one_point", "two_points", "three_points",
                        "four_points">>

\* ComponentsManager.get_layout_type (components.py 236-245): the argument
\* is a ChapterLayout member (its number) or a str (StrArg), which has no
\* str_value
get_layout_type(catalog, layout_name) ==
  IF layout_name.type # "ChapterLayout"
    THEN [err |-> "AttributeError", found |-> FALSE, styles |-> <<>>]
  ELSE IF HasKey(catalog, ChapterLayoutNames[layout_name.value])
    THEN [err |-> "ok", found |-> TRUE,
          styles |-> Get(catalog, ChapterLayoutNames[layout_name.value])]
  ELSE [err |-> "ok", found |-> FALSE, styles |-> <<>>]

Member(points) == [type |-> "ChapterLayout", value |-> points]
LayoutStr(name) == [type |-> "str", value |-> name]

\* ComponentsManager.get_random_style (components.py 247-269): choice is the
\* position random.choice would take; found is false for None
get_random_style(catalog, layout_name, choice) ==
  LET layout == get_layout_type(catalog, layout_name)
  IN IF layout.err # "ok" THEN [err |-> layout.err, found |-> FALSE, shapes |-> <<>>]
     ELSE IF ~layout.found \/ layout.styles = <<>>
       THEN [err |-> "ok", found |-> FALSE, shapes |-> <<>>]
     ELSE [err |-> "ok", found |-> TRUE,
           shapes |-> layout.styles[((choice - 1) % Len(layout.styles)) + 1].value]

\* --------------------------------------------------- chapter content page
\* sorted(style.shapes.items(), key=zorder) (line 599): a stable sort
RECURSIVE SortByZorder(_, _)
SortByZorder(todo, done) ==
  IF todo = <<>> THEN done
  ELSE LET k == Cardinality({i \in DOMAIN done :
                  done[i].value.zorder <= Head(todo).value.zorder})
       IN SortByZorder(Tail(todo),
            SubSeq(done, 1, k) \o <<Head(todo)>> \o SubSeq(done, k + 1, Len(done)))

\* modify_shape_xml (workflows/pptgen/utils.py 179-215): id and name are
\* set; the text is replaced when the shape has a text run with run
\* properties
modify_shape_xml(xml, shape_id, shape_name, text_content) ==
  [xml EXCEPT !.id = shape_id, !.name = shape_name,
              !.text = IF xml.text # NoLine /\ xml.rPr THEN text_content
                       ELSE xml.text]

\* add_shape_by_xml (workflows/pptgen/utils.py 218-251): the shape is the
\* last of the slide and gets the location
add_shape_by_xml(placed, shape_xml, shape_id, shape_name, text_content, location) ==
  Append(placed, [xml |-> modify_shape_xml(shape_xml, shape_id, shape_name,
                                           text_content),
                  picture |-> NoLine, location |-> location])

\* str.lower() for the letters A to Z
UpperCase ==
  <<"A", "B", "C", "D", "E", "F", "G", "H", "I", "J", "K", "L", "M", "N",
  "O", "P", "Q", "R", "S", "T", "U", "V", "W", "X", "Y", "Z">>
LowerCase ==
  <<"a", "b", "c", "d", "e", "f", "g", "h", "i", "j", "k", "l", "m", "n",
  "o", "p", "q", "r", "s", "t", "u", "v", "w", "x", "y", "z">>
lower(text) ==
  [i \in DOMAIN text |->
     IF \E k \in DOMAIN UpperCase : UpperCase[k] = text[i]
       THEN LowerCase[CHOOSE k \in DOMAIN UpperCase : UpperCase[k] = text[i]]
       ELSE text[i]]

\* IMAGE_EXTENSIONS (workflows/pptgen/utils.py 34-44)
ImageExtensions ==
  {<<"b", "m", "p">>,
   <<"j", "p", "g">>,
   <<"j", "p", "e", "g">>,
   <<"p", "g", "m">>,
   <<"p", "n", "g">>,
   <<"p", "p", "m">>,
   <<"t", "i", "f">>,
   <<"t", "i", "f", "f">>,
   <<"w", "e", "b", "p">>}

\* is_image_path (workflows/pptgen/utils.py 47-59): the text after the last
\* dot, in lower case, is an image extension
is_image_path(path) ==
  /\ path # NoLine
  /\ lower(split(path, ".")[Len(split(path, "."))]) \in ImageExtensions

Opaque == <<"o", "p", "a", "q", "u", "e">>
Transparent == <<"t", "r", "a", "n", "s", "p", "a", "r", "e", "n", "t">>

\* ----------------------------------------------------------- picture pools
\* the files of the largest directory of candidates, and the calls of a run
MaxPictures == 2
MaxPictureCalls == 4

PictureNames == <<"p", "q", "r", "s", "t">>

\* the directories of candidates: two of the opaque pool with files of the
\* same names, one of the transparent pool, an empty one, and a directory
\* of no pool
DirA == <<"a", "/">> \o Opaque
DirB == <<"b", "/">> \o Opaque
DirT == <<"a", "/">> \o Transparent
DirEmpty == <<"e", "/">> \o Opaque
DirOther == <<"a", "/", "p", "i", "c", "s">>
PictureDirs == {DirA, DirB, DirT, DirEmpty, DirOther}

\* os.listdir(picture_dir)
listdir(picture_dir) ==
  IF picture_dir \in {DirEmpty, DirOther} THEN <<>>
  ELSE IF picture_dir = DirB
    THEN [i \in 1..(MaxPictures - 1) |-> <<PictureNames[i]>>]
  ELSE [i \in 1..MaxPictures |-> <<PictureNames[i]>>]

\* lines 525-530: the pool of a directory, "None" for a path of no pool
picture_type(picture_path) ==
  IF endswith(picture_path, Opaque) THEN "opaque"
  ELSE IF endswith(picture_path, Transparent) THEN "transparent"
  ELSE "None"

\* lines 532-537: the files random.choice takes one of
available_pictures(used, picture_path) ==
  LET unused == SelectSeq(listdir(picture_path),
                  LAMBDA p : p \notin used[picture_type(picture_path)])
  IN IF unused = <<>> THEN listdir(picture_path) ELSE unused

\* lines 532-536: the used pictures of the pool after the reset, if any
AfterReset(used, picture_path) ==
  IF \A i \in DOMAIN listdir(picture_path) :
       listdir(picture_path)[i] \in used[picture_type(picture_path)]
    THEN [used EXCEPT ![picture_type(picture_path)] = {}]
    ELSE used

\* _get_picture without line 540: the chosen picture is not recorded as used
_get_picture_forgetful(used, picture_path, chosen_picture) ==
  IF picture_type(picture_path) = "None"
    THEN [err |-> "PPTGenError", used |-> used, ret |-> <<>>]
  ELSE IF available_pictures(used, picture_path) = <<>>
    THEN [err |-> "IndexError", used |-> AfterReset(used, picture_path),
          ret |-> <<>>]
  ELSE [err |-> "ok", used |-> AfterReset(used, picture_path),
        ret |-> picture_path \o <<"/">> \o chosen_picture]

\* ChapterContentPage._get_picture (pptpages.py 515-541) with the file
\* random.choice takes
_get_picture(used, picture_path, chosen_picture) ==
  IF picture_type(picture_path) = "None"
    THEN [err |-> "PPTGenError", used |-> used, ret |-> <<>>]
  ELSE IF available_pictures(used, picture_path) = <<>>
    THEN [err |-> "IndexError", used |-> AfterReset(used, picture_path),
          ret |-> <<>>]
  ELSE [err |-> "ok",
        used |-> [AfterReset(used, picture_path) EXCEPT
                    ![picture_type(picture_path)] = @ \cup {chosen_picture}],
        ret |-> picture_path \o <<"/">> \o chosen_picture]

\* random.choice(seq) when it takes the element at position pick, counted
\* round the list
random_choice(seq, pick) ==
  IF seq = <<>> THEN NoLine ELSE seq[((pick - 1) % Len(seq)) + 1]

\* lines 641-642 with the value of _get_picture: the used pictures are those
\* it left, the picture is inserted when it returned one
PictureDrawn(st, loc, r) ==
  IF r.err # "ok" THEN [st EXCEPT !.err = r.err, !.used = r.used]
  ELSE [st EXCEPT !.used = r.used,
                  !.placed = Append(@, [xml |-> None, picture |-> r.ret,
                                        location |-> loc])]

\* line 641 is reached: the path of the PICTURE shape names a directory, of
\* which _get_picture draws a file
Draws(shape) ==
  /\ shape.content_type = "picture"
  /\ shape.path # NoLine
  /\ ~is_image_path(shape.path)

\* lines 635-642: the picture of a PICTURE shape; a path that names no image
\* is a directory of candidates and _get_picture draws one of its files;
\* picks holds what random.choice takes at this call and at the later ones
PlacePicture(st, shape, loc, picks) ==
  IF shape.path = NoLine THEN [st EXCEPT !.err = "PPTGenError"]
  ELSE IF is_image_path(shape.path)
    THEN [st EXCEPT !.placed = Append(@, [xml |-> None, picture |-> shape.path,
                                          location |-> loc])]
  ELSE PictureDrawn(st, loc,
         _get_picture(st.used, shape.path,
                      random_choice(available_pictures(st.used, shape.path),
                                    Head(picks))))

\* lines 605-659: the instance of shape e (an item of the style, with its
\* shape id) at its location number idx (0-based); st holds the shapes
\* inserted so far and ChapterContentPage.used_pictures
PlaceOne(st, e, idx, titles, section_texts, picks) ==
  LET shape == e.value
      locs == shape.location
      loc == locs[idx + 1]
  IN IF shape.content_type = "content"
       THEN IF Len(section_texts) # Len(locs)
              THEN [st EXCEPT !.err = "PPTGenError"]
              ELSE [st EXCEPT !.placed =
                      add_shape_by_xml(@, shape.xml, e.index, e.key,
                                       section_texts[idx + 1], loc)]
     ELSE IF shape.content_type = "title"
       THEN IF Len(titles) # Len(locs)
              THEN [st EXCEPT !.err = "PPTGenError"]
              ELSE [st EXCEPT !.placed =
                      add_shape_by_xml(@, shape.xml, e.index, e.key,
                                       titles[idx + 1], loc)]
     ELSE IF shape.content_type = "picture"
       THEN PlacePicture(st, shape, loc, picks)
     ELSE IF shape.content_type = "number"
       THEN [st EXCEPT !.placed =
               add_shape_by_xml(@, shape.xml, e.index, e.key,
                                zfill(Str(idx + 1), 2), loc)]
     ELSE [st EXCEPT !.placed =
             add_shape_by_xml(@, shape.xml, e.index, e.key, <<>>, loc)]

\* lines 601-660: the loops over the sorted shapes and over the locations
\* of each; todo lists the instances still to insert; random.choice is
\* called anew for every picture drawn, and each call uses up one pick
RECURSIVE PlaceAll(_, _, _, _, _)
PlaceAll(st, todo, titles, section_texts, picks) ==
  IF todo = <<>> \/ st.err # "ok" THEN st
  ELSE PlaceAll(PlaceOne(st, Head(todo).item, Head(todo).idx, titles,
                         section_texts, picks),
                Tail(todo), titles, section_texts,
                IF Draws(Head(todo).item.value) THEN Tail(picks) ELSE picks)

\* no shape inserted yet
NothingPlaced(used) == [err |-> "ok", placed |-> <<>>, used |-> used]

\* the instances of the sorted shapes in loop order: shape number k (from 0,
\* the shape id of line 593 and 660) at each of its locations
RECURSIVE Instances(_, _)
Instances(sorted, k) ==
  IF k > Len(sorted) THEN <<>>
  ELSE [i \in 1..Len(sorted[k].value.location) |->
          [item |-> [key |-> sorted[k].key, value |-> sorted[k].value,
                     index |-> k - 1],
           idx |-> i - 1]]
       \o Instances(sorted, k + 1)

\* lines 599-661 on the new slide, the last of the deck
ContentShapes(g, style, titles, section_texts, slide_index, picks) ==
  IF style.err # "ok" THEN GRaise(g, style.err)
  ELSE IF ~style.found THEN GRaise(g, "AttributeError")
  ELSE LET r == PlaceAll(NothingPlaced(g.used_pictures),
                         Instances(SortByZorder(style.shapes, <<>>), 1),
                         titles, section_texts, picks)
           g1 == [g EXCEPT !.slides[Len(g.slides)].shapes = r.placed,
                           !.used_pictures = r.used]
       IN IF r.err # "ok" THEN GRaise(g1, r.err)
          ELSE move_slide(g1, Len(g.slides), slide_index)

\* lines 584-595 for a chapter with slide_type children whose texts were
\* read: the new slide, its title, the layout and the style
ContentSlide(g, h, catalog, content, slide_type, section_texts, chapter_page_index, slide_index, choice, picks) ==
  IF section_texts.err # "ok" THEN GRaise(g, section_texts.err)
  ELSE IF chapter_page_index >= Len(g.slides) THEN GRaise(g, "IndexError")
  ELSE LET layout == g.slides[chapter_page_index + 1].layout
           g1 == [add_slide(g, layout) EXCEPT
                    !.slides[Len(g.slides) + 1].title =
                       IF layout \in TitleLayouts THEN h._text[content] ELSE <<>>]
       IN IF slide_type = 0 THEN GRaise(g1, "ValueError")
          ELSE ContentShapes(g1,
                 get_random_style(catalog, Member(slide_type), choice),
                 SectionTitles(h, ContentsOf(h, content)),
                 section_texts.texts, slide_index, picks)

\* ChapterContentPage.generate_slide (pptpages.py 559-661)
ChapterContentPage_generate_slide(g, h, catalog, content, chapter_page_index, slide_index, choice, picks) ==
  IF g.err # "ok" THEN g
  ELSE IF h.level[content] = Unset THEN GRaise(g, "AttributeError")
  ELSE IF h.level[content] # 2 THEN GRaise(g, "AssertionError")
  ELSE IF Len(ContentsOf(h, content)) > 4 THEN GRaise(g, "PPTGenError")
  ELSE IF \E i \in DOMAIN ContentsOf(h, content) :
            h._text[ContentsOf(h, content)[i]] = NoAttribute
    THEN GRaise(g, "AttributeError")
  ELSE ContentSlide(g, h, catalog, content, Len(ContentsOf(h, content)),
                    SectionTexts(h, ContentsOf(h, content), <<>>),
                    chapter_page_index, slide_index, choice, picks)

\* the calls of random.choice at line 641 for the style a slide of n
\* sub-sections gets when the styles are chosen as choice says
DrawCount(catalog, n, choice) ==
  IF n \notin 1..4 THEN 0
  ELSE IF get_random_style(catalog, Member(n), choice).err # "ok" THEN 0
  ELSE Len(SelectSeq(
             Instances(SortByZorder(
                         get_random_style(catalog, Member(n), choice).shapes,
                         <<>>), 1),
             LAMBDA e : Draws(e.item.value)))

\* what random.choice may take at n calls, one after the other
PickLists(n) == [1..n -> 1..MaxPictures]

\* the choices random.choice may make for the content page of a chapter:
\* a style and a picture for every picture drawn
ContentChoices(h, catalog, content) ==
  UNION {{[style |-> choice, pictures |-> picks] :
            picks \in PickLists(DrawCount(catalog,
                                         Len(ContentsOf(h, content)), choice))} :
           choice \in 1..2}

\* ------------------------------------------------------------ deck assembly
\* the nodes of list for which keep holds, in order
Filter(list, keep(_)) == SelectSeq(list, keep)

\* PPTGen._cleanup_template_slides (pptgen.py 88-92) for the indices
\* home < content < end, largest first
_cleanup_template_slides(g, home, content, end) ==
  remove_slide(remove_slide(remove_slide(g, end), content), home)

\* pptgen.py 62-78: the home page and the content page of each chapter;
\* number is the chapter number, choices the style and the pictures
\* random.choice takes for each chapter
RECURSIVE ChapterPages(_, _, _, _, _, _, _, _, _, _)
ChapterPages(g, h, catalog, chapters, number, home, content, current, randint, choices) ==
  IF g.err # "ok" \/ number > Len(chapters) THEN g
  ELSE ChapterPages(
         ChapterContentPage_generate_slide(
           ChapterHomePage_generate_slide(g, h, chapters[number], home, number,
                                          current, randint),
           h, catalog, chapters[number], content, current + 1,
           choices[number].style, choices[number].pictures),
         h, catalog, chapters, number + 1, home, content, current + 2,
         randint, choices)

\* pptgen.py 57-86 with the value of CatalogPage.generate_slide in g.ret
AfterCatalog(g, h, catalog, chapters, randint, choices) ==
  IF g.err # "ok" THEN g
  ELSE LET last == g.ret
       IN [_cleanup_template_slides(
             EndPage_generate_slide(
               ChapterPages([g EXCEPT !.ret = <<>>], h, catalog, chapters, 1,
                            last + 1, last + 2, last + 4, randint, choices),
               last + 3, last + 4 + 2 * Len(chapters)),
             last + 1, last + 2, last + 3)
           EXCEPT !.ret = <<>>]

\* pptgen.py 46-55 with the descendants of the main heading
Chapters(g, h, catalog, under, catalog_page_index, randint, choices) ==
  IF g.err # "ok" THEN g
  ELSE IF \E i \in DOMAIN under.yielded :
            /\ h.kind[under.yielded[i]] = "Heading"
            /\ h.level[under.yielded[i]] = Unset
    THEN GRaise(g, "AttributeError")
  ELSE IF under.err # "ok" THEN GRaise(g, under.err)
  ELSE LET chapters == Filter(under.list,
                         LAMBDA n : h.kind[n] = "Heading" /\ h.level[n] = 2)
       IN IF chapters = <<>> THEN GRaise(g, "MarkdownDocumentError")
          ELSE AfterCatalog(
                 CatalogPage_generate_slide(g, h, chapters, catalog_page_index,
                                            1),
                 h, catalog, chapters, randint, choices)

\* pptgen.py 36-44 with the descendants of the document
GenerateFrom(g, h, catalog, all, cover_page_index, catalog_page_index, randint, choices) ==
  IF all.err # "ok" THEN GRaise(g, all.err)
  ELSE IF Filter(all.list, LAMBDA n : h.level[n] = 1) = <<>>
    THEN GRaise(g, "MarkdownDocumentError")
  ELSE IF h.main = None THEN GRaise(g, "MarkdownDocumentError")
  ELSE Chapters(CoverPage_generate_slide(g, h, h.main, cover_page_index), h,
                catalog, descendants(h, h.main), catalog_page_index, randint,
                choices)

\* PPTGen.generate (pptgen.py 27-86) for the document Doc of heap h
generate(g, h, catalog, cover_page_index, catalog_page_index, randint, choices) ==
  GenerateFrom(g, h, catalog, descendants(h, Doc), cover_page_index,
               catalog_page_index, randint, choices)

\* ------------------------------------------------- generator: the state
\* the calls one run makes on a presentation
MaxCalls == 2

Loc(x, y) == [x |-> x, y |-> y, width |-> 2, height |-> 1]

\* shape XML: the id and name of its cNvPr, what is left when position, id,
\* name and text are taken away (form), the text of its first text element
\* (NoLine without one), whether that text's run has run properties, its
\* a:xfrm, whether it has a p:custDataLst and the text of its p:nvPr (NoLine
\* for the empty element)
Xml(id, form, text, rPr) ==
  [id |-> id, name |-> form, form |-> form, text |-> text, rPr |-> rPr,
   xfrm |-> Loc(0, 0), custDataLst |-> FALSE, nvPr |-> NoLine]

\* the xml of a CShape that has none (None)
NoXml ==
  [id |-> 0, name |-> "None", form |-> "None", text |-> NoLine, rPr |-> FALSE,
   xfrm |-> Loc(0, 0), custDataLst |-> FALSE, nvPr |-> NoLine]

CShape(xml, zorder, content_type, path, location) ==
  [xml |-> xml, zorder |-> zorder, content_type |-> content_type,
   path |-> path, location |-> location]

Item(key, value) == [key |-> key, value |-> value]

\* a components file as settings.COMPONENTS_PATH names it: a one-point style
\* whose body shape recurs at two places, a one-point style with one body
\* shape, a decoration and a number, and a two-point style
ExampleCatalog ==
  <<Item("one_point",
      <<Item("style_1",
          <<Item("body_1", CShape(Xml(4, "body", <<"t">>, TRUE), 1, "content",
                                  NoLine, <<Loc(0, 0), Loc(3, 0)>>)),
            Item("mark_0", CShape(Xml(3, "mark", <<"1">>, TRUE), 0, "number",
                                  NoLine, <<Loc(0, 2)>>))>>),
        Item("style_2",
          <<Item("text_1", CShape(Xml(5, "text", <<"t">>, TRUE), 1, "content",
                                  NoLine, <<Loc(0, 0)>>)),
            Item("seal_2", CShape(Xml(6, "seal", <<"s">>, TRUE), 2, "None",
                                  NoLine, <<Loc(3, 2)>>)),
            Item("mark_0", CShape(Xml(3, "mark", <<"1">>, TRUE), 0, "number",
                                  NoLine, <<Loc(0, 2)>>))>>)>>),
    Item("two_points",
      <<Item("style_1",
          <<Item("head_0", CShape(Xml(2, "head", <<"t">>, TRUE), 0, "title",
                                  NoLine, <<Loc(0, 0), Loc(3, 0)>>))>>)>>)>>

\* the template deck: cover, catalog with m slots numbered from 1 one below
\* the other, each a chapter number and the label beside it, chapter home,
\* chapter content, end
Template(m) ==
  <<[NewSlide("cover", "template") EXCEPT !.title = <<"t">>],
    CatalogTemplate("vertical", m, [i \in 1..m |-> LabelOfSlot(i)]),
    NewSlide("home", "template"),
    NewSlide("content", "template"),
    NewSlide("end", "template")>>

\* the titles of the headings of the model
Titles == <<"A", "B", "C", "D", "E", "F", "G">>

\* a heap with the document alone, as MarkdownDocument("") leaves it
EmptyHeap ==
  [kind |-> [n \in Node |-> IF n = Doc THEN "MarkdownDocument" ELSE "free"],
   parent |-> [n \in Node |-> Unset],
   previous_element |-> [n \in Node |-> Unset],
   next_element |-> [n \in Node |-> Unset],
   previous_sibling |-> [n \in Node |-> Unset],
   next_sibling |-> [n \in Node |-> Unset],
   contents |-> <<>>,
   own_contents |-> [n \in Node |-> <<>>],
   _decomposed |-> [n \in Node |-> FALSE],
   level |-> [n \in Node |-> Unset],
   _text |-> [n \in Node |-> NoLine],
   row_number |-> [n \in Node |-> 0],
   main |-> None,
   parser |-> NewParser(<<>>, "none"),
   err |-> "ok", ret |-> <<>>]

\* Heading(2, title) for every node from n on
RECURSIVE HeadingsFrom(_, _)
HeadingsFrom(h, n) ==
  IF n > PoolSize THEN h
  ELSE HeadingsFrom(Construct(h, n, "Heading", 2, <<Titles[n - 1]>>), n + 1)

\* level-2 headings that no tree holds
FreshHeap == HeadingsFrom(EmptyHeap, 2)

\* Heading(3, text) is decomposed, which leaves it a contents list of its
\* own, is given its text again and is appended to the chapter: the only
\* sub-sections whose text line 582 of pptpages.py can read
WithSection(h, chapter, n, text) ==
  append(heading_text(decompose(Construct(h, n, "Heading", 3, text), n),
                      n, text),
         chapter, n)

\* the heaps a caller can hand to the generator: the fresh headings; the
\* fresh headings of which one was decomposed; a chapter to which a level-3
\* heading was appended; a chapter to which a
\* paragraph was appended; a level-1 heading that is the main heading of the
\* document and to which a chapter was appended; a chapter with one and
\* with two sub-sections that were decomposed and given a text again
GenHeaps ==
  {FreshHeap,
   WithSection(FreshHeap, 2, 3, <<"S">>),
   WithSection(WithSection(FreshHeap, 2, 3, <<"S">>), 2, 4, <<"U">>),
   decompose(FreshHeap, 3),
   append(Construct(FreshHeap, 3, "Heading", 3, <<"s">>), 2, 3),
   append(Construct(FreshHeap, 3, "Paragraph", Unset, <<"p">>), 2, 3),
   [append(Construct(FreshHeap, 2, "Heading", 1, <<"T">>), 2, 3)
      EXCEPT !.main = 2]}

SetHeap(h) ==
  /\ kind = h.kind
  /\ parent = h.parent
  /\ previous_element = h.previous_element
  /\ next_element = h.next_element
  /\ previous_sibling = h.previous_sibling
  /\ next_sibling = h.next_sibling
  /\ contents = h.contents
  /\ own_contents = h.own_contents
  /\ _decomposed = h._decomposed
  /\ level = h.level
  /\ _text = h._text
  /\ row_number = h.row_number
  /\ main = h.main
  /\ parser = h.parser

\* a presentation opened from a template, the components file loaded at
\* import, no chapter number rendered yet
GenInit ==
  /\ \E h \in GenHeaps : SetHeap(h)
  /\ err = "ok"
  /\ ret = <<>>
  /\ op = NoOp
  /\ generator = NoGenerator
  /\ pre = Heap
  /\ \E m \in 1..MaxSlots : slides = Template(m)
  /\ selected_style = None
  /\ used_pictures = NoPictures
  /\ layout_types = ExampleCatalog
  /\ json_file = <<>>
  /\ call = NoCall

\* what the generator reads and writes besides the heap
Gen == [slides |-> slides, selected_style |-> selected_style,
        used_pictures |-> used_pictures, err |-> "ok", ret |-> <<>>]

\* the caller makes a call: no exception has ended the run
GenReady == err = "ok" /\ call.count < MaxCalls

Called(name, content, idx, number) ==
  [name |-> name, content |-> content, index |-> idx, number |-> number,
   before |-> slides, style |-> selected_style, count |-> call.count + 1]

GenCommit(g, c) ==
  /\ slides' = g.slides
  /\ selected_style' = g.selected_style
  /\ err' = g.err
  /\ ret' = IF g.err = "ok" THEN g.ret ELSE <<>>
  /\ used_pictures' = g.used_pictures
  /\ call' = c
  /\ UNCHANGED <<tvars, op, pre, generator,
                 layout_types, json_file>>

\* the headings of the heap, in the order of their creation, and the
\* chapter lists a caller passes: the first k of them
Headings == {n \in Node : kind[n] = "Heading"}
AllHeadings == SelectSeq([n \in Node |-> n], LAMBDA n : n \in Headings)
ChapterLists ==
  {SubSeq(AllHeadings, 1, k) : k \in 0..Min2(MaxChapters, Len(AllHeadings))}
\* the index of a slide of the template, and one beyond the deck
IndexesOf(i) == {i, Len(slides)}
ChapterNumbers == 1..2

DoCoverPage(content) ==
  /\ GenReady
  /\ GenCommit(CoverPage_generate_slide(Gen, Heap, content, 0),
               Called("cover", <<content>>, 0, 0))

DoCatalogPage(content, catalog_page_index) ==
  /\ GenReady
  /\ GenCommit(CatalogPage_generate_slide(Gen, Heap, content,
                                          catalog_page_index, 1),
               Called("catalog", content, catalog_page_index, 0))

DoChapterHomePage(content, chapter_home_page_index, chapter_number, randint) ==
  /\ GenReady
  /\ GenCommit(ChapterHomePage_generate_slide(Gen, Heap, content,
                 chapter_home_page_index, chapter_number, Len(slides),
                 randint),
               Called("home", <<content>>, chapter_home_page_index,
                      chapter_number))

DoChapterContentPage(content, chapter_page_index, chosen) ==
  /\ GenReady
  /\ GenCommit(ChapterContentPage_generate_slide(Gen, Heap, layout_types,
                 content, chapter_page_index, Len(slides), chosen.style,
                 chosen.pictures),
               Called("content", <<content>>, chapter_page_index,
                      chosen.style))

DoEndPage(end_page_index) ==
  /\ GenReady
  /\ GenCommit(EndPage_generate_slide(Gen, end_page_index, Len(slides)),
               Called("end", <<>>, end_page_index, 0))

DoConvertChapterNumber(chapter_number, randint) ==
  /\ GenReady
  /\ GenCommit(convert_chapter_number(Gen, chapter_number, randint),
               Called("convert", <<>>, 0, chapter_number))

\* the chapters generate finds: the level-2 headings below the main heading
ChaptersOf(h) ==
  IF h.main = None THEN <<>>
  ELSE SelectSeq(descendants(h, h.main).list,
                 LAMBDA n : h.kind[n] = "Heading" /\ h.level[n] = 2)

\* the choices random.choice may make in one run of generate: those of the
\* content page of every chapter
GenerateChoices(h, catalog) ==
  {choices \in [DOMAIN ChaptersOf(h) ->
                  UNION {ContentChoices(h, catalog, ChaptersOf(h)[i]) :
                           i \in DOMAIN ChaptersOf(h)}] :
     \A i \in DOMAIN ChaptersOf(h) :
       choices[i] \in ContentChoices(h, catalog, ChaptersOf(h)[i])}

DoGenerate(randint, choices) ==
  /\ GenReady
  /\ GenCommit(generate(Gen, Heap, layout_types, 0, 1, randint, choices),
               Called("generate", <<>>, 1, 0))

\* n.heading_text = text or n.element_text = text between two calls of the
\* generator
DoAssignText(n, text) ==
  /\ GenReady
  /\ kind[n] \notin {"free", "MarkdownDocument"}
  /\ \E h \in {AssignText(Heap, n, text)} : _text' = h._text /\ err' = h.err
  /\ ret' = <<>>
  /\ call' = Called("text", <<n>>, 0, 0)
  /\ UNCHANGED <<kind, parent, previous_element, next_element,
                 previous_sibling, next_sibling, contents, own_contents,
                 _decomposed, level, row_number, main, parser, op, pre,
                 generator, slides, selected_style, layout_types, json_file,
                 used_pictures>>

GenNext ==
  \/ \E content \in Headings : DoCoverPage(content)
  \/ \E content \in ChapterLists, catalog_page_index \in IndexesOf(1) :
       DoCatalogPage(content, catalog_page_index)
  \/ \E content \in Headings, chapter_home_page_index \in IndexesOf(2),
        chapter_number \in ChapterNumbers, randint \in 1..3 :
       DoChapterHomePage(content, chapter_home_page_index, chapter_number,
                         randint)
  \/ \E content \in Headings, chapter_page_index \in IndexesOf(3) :
       \E chosen \in ContentChoices(Heap, layout_types, content) :
         DoChapterContentPage(content, chapter_page_index, chosen)
  \/ \E end_page_index \in IndexesOf(4) : DoEndPage(end_page_index)
  \/ \E chapter_number \in ChapterNumbers, randint \in 1..3 :
       DoConvertChapterNumber(chapter_number, randint)
  \/ \E randint \in 1..3, choices \in GenerateChoices(Heap, layout_types) :
       DoGenerate(randint, choices)
  \/ \E n \in Node, text \in NewTexts : DoAssignText(n, text)

GenSpec == GenInit /\ [][GenNext]_vars

\* ============================================================ style catalog
\* the shapes of the slide a style is taken from
MaxShapes == 3
\* the calls made on one components manager
MaxSteps == 3

\* ------------------------------------------------- values of a JSON file
\* What json.dump writes and json.load reads: None (null), int, str, list
\* and dict, a dict being the sequence of its items.
PyNone == [t |-> "None"]
PyInt(n) == [t |-> "int", v |-> n]
PyStr(s) == [t |-> "str", v |-> s]
PyList(l) == [t |-> "list", v |-> l]
PyDict(items) == [t |-> "dict", v |-> items]

\* dict.get(key, default)
GetOr(dict, key, default) ==
  IF HasKey(dict, key) THEN Get(dict, key) ELSE default

\* the dict of a Location (components.py 112 and 363)
LocationDict(loc) ==
  PyDict(<<Item("x", PyInt(loc.x)), Item("y", PyInt(loc.y)),
           Item("width", PyInt(loc.width)), Item("height", PyInt(loc.height))>>)

\* CShape.to_dict (components.py 110-121)
CShape_to_dict(shape) ==
  PyDict(<<Item("xml", IF shape.xml = NoXml THEN PyNone ELSE PyStr(shape.xml)),
           Item("zorder", PyInt(shape.zorder)),
           Item("content_type", IF shape.content_type = "None" THEN PyNone
                                ELSE PyStr(shape.content_type)),
           Item("path", IF shape.path = NoLine THEN PyNone
                        ELSE PyStr(shape.path)),
           Item("location",
                PyList([i \in DOMAIN shape.location |->
                          LocationDict(shape.location[i])]))>>)

\* Location(x=loc.get("x", 0), ...) (components.py 97-100)
LocationFrom(loc) ==
  [x |-> GetOr(loc.v, "x", PyInt(0)).v, y |-> GetOr(loc.v, "y", PyInt(0)).v,
   width |-> GetOr(loc.v, "width", PyInt(0)).v,
   height |-> GetOr(loc.v, "height", PyInt(0)).v]

\* CShape.from_dict (components.py 93-108) for the items of a dict
CShape_from_dict(data) ==
  LET xml == GetOr(data, "xml", PyNone)
      content_type == GetOr(data, "content_type", PyNone)
      path == GetOr(data, "path", PyNone)
      location == GetOr(data, "location", PyList(<<>>)).v
  IN CShape(IF xml.t = "None" THEN NoXml ELSE xml.v,
            GetOr(data, "zorder", PyInt(0)).v,
            IF content_type.t = "None" THEN "None" ELSE content_type.v,
            IF path.t = "None" THEN NoLine ELSE path.v,
            [i \in DOMAIN location |-> LocationFrom(location[i])])

\* Style.to_dict (components.py 137-141) and LayoutType.to_dict (184-189)
Style_to_dict(shapes) ==
  PyDict([i \in DOMAIN shapes |->
            Item(shapes[i].key, CShape_to_dict(shapes[i].value))])
LayoutType_to_dict(styles) ==
  PyDict([i \in DOMAIN styles |->
            Item(styles[i].key, Style_to_dict(styles[i].value))])

\* Style.load_from_dict (components.py 133-135) from item k on
RECURSIVE Style_load_from_dict(_, _, _)
Style_load_from_dict(shapes, shapes_data, k) ==
  IF k > Len(shapes_data) THEN shapes
  ELSE Style_load_from_dict(
         Put(shapes, shapes_data[k].key,
             CShape_from_dict(shapes_data[k].value.v)),
         shapes_data, k + 1)

\* Style(name, shapes_data) (components.py 126-131): an empty dict is not
\* loaded
StyleOf(shapes_data) ==
  IF shapes_data = <<>> THEN <<>>
  ELSE Style_load_from_dict(<<>>, shapes_data, 1)

\* LayoutType.load_from_dict (components.py 178-183) from item k on
RECURSIVE LayoutType_load_from_dict(_, _, _)
LayoutType_load_from_dict(styles, data, k) ==
  IF k > Len(data) THEN styles
  ELSE LayoutType_load_from_dict(
         Put(styles, data[k].key, StyleOf(data[k].value.v)), data, k + 1)

\* LayoutType(name, data) (components.py 170-176)
LayoutTypeOf(data) ==
  IF data = <<>> THEN <<>> ELSE LayoutType_load_from_dict(<<>>, data, 1)

\* ComponentsManager.save_to_json (components.py 228-234): the file written
save_to_json(catalog) ==
  PyDict([i \in DOMAIN catalog |->
            Item(catalog[i].key, LayoutType_to_dict(catalog[i].value))])

\* the file at json_path: NoFile when nothing was written there
NoFile == [t |-> "missing"]

\* lines 225-226 and 462-463: the layouts of the file are set one by one
RECURSIVE LoadLayouts(_, _, _)
LoadLayouts(catalog, data, k) ==
  IF k > Len(data) THEN catalog
  ELSE LoadLayouts(Put(catalog, data[k].key, LayoutTypeOf(data[k].value.v)),
                   data, k + 1)

\* ComponentsManager.load_from_json (components.py 221-226) into a manager
\* that holds catalog
load_from_json(catalog, file) ==
  IF file = NoFile THEN [err |-> "FileNotFoundError", catalog |-> catalog]
  ELSE [err |-> "ok", catalog |-> LoadLayouts(catalog, file.v, 1)]

\* reload keeping the layouts it holds
reload_keeping(catalog, file) ==
  load_from_json(catalog, file)

\* ComponentsManager.reload (components.py 458-464): the catalog is emptied
\* once the file is read
reload(catalog, file) ==
  IF file = NoFile THEN [err |-> "FileNotFoundError", catalog |-> catalog]
  ELSE [err |-> "ok", catalog |-> LoadLayouts(<<>>, file.v, 1)]

\* --------------------------------------------------- a style from a slide
\* A shape of a slide: name, whether it is a placeholder, its kind (picture,
\* text for a shape with a text frame, other), its place and what its XML
\* holds (see Xml).
SlideShape(name, kind_, text, form, custDataLst, width, height) ==
  [name |-> name, is_placeholder |-> kind_ = "placeholder",
   shape_type |-> kind_, text |-> text, form |-> form, rPr |-> TRUE,
   custDataLst |-> custDataLst, left |-> 0, top |-> 0, width |-> width,
   height |-> height, shape_id |-> 0]

\* f"{shape.name}_{i}" (components.py 365, 386, 403) for the names of the
\* model
Suffixed(name, i) ==
  CASE name = "body" -> <<"body_0", "body_1", "body_2", "body_3", "body_4">>[i + 1]
    [] name = "note" -> <<"note_0", "note_1", "note_2", "note_3", "note_4">>[i + 1]
    [] name = "twin" -> <<"twin_0", "twin_1", "twin_2", "twin_3", "twin_4">>[i + 1]
    [] name = "mark" -> <<"mark_0", "mark_1", "mark_2", "mark_3", "mark_4">>[i + 1]
    [] name = "photo" -> <<"photo_0", "photo_1", "photo_2", "photo_3", "photo_4">>[i + 1]
    [] name = "line" -> <<"line_0", "line_1", "line_2", "line_3", "line_4">>[i + 1]

\* f"components/picture/{shape.name}.png" (components.py 353) for the
\* picture of the model
PicturePath(name) ==
  <<"c", "o", "m", "p", "o", "n", "e", "n", "t", "s", "/", "p", "i", "c", "t",
    "u", "r", "e", "/", "p", "h", "o", "t", "o", ".", "p", "n", "g">>

\* the line break and indent that the serialised XML has between a
\* start tag and the first child
Indent == <<"\n", " ", " ", " ">>

\* shape._element.xml, the indented text of the element: p:nvPr is the
\* empty element unless it holds the p:custDataLst, and then its text is
\* the indent before that child
ElementXml(shape) ==
  [id |-> shape.shape_id, name |-> shape.name, form |-> shape.form,
   text |-> shape.text, rPr |-> shape.rPr,
   xfrm |-> [x |-> shape.left, y |-> shape.top, width |-> shape.width,
             height |-> shape.height],
   custDataLst |-> shape.custDataLst,
   nvPr |-> IF shape.custDataLst THEN Indent ELSE NoLine]

\* remove_custDataLst (components.py 14-39): the p:custDataLst element is
\* taken out of its parent, the text of the parent stays
remove_custDataLst(xml) == [xml EXCEPT !.custDataLst = FALSE]

\* shape.text: the text of the runs, empty without one
ShapeText(shape) == IF shape.text = NoLine THEN <<>> ELSE shape.text

\* Location(x=shape.left, ...) (components.py 351)
LocationOf(shape) ==
  [x |-> shape.left, y |-> shape.top, width |-> shape.width,
   height |-> shape.height]

\* the dict of lines 356-364, 377-385 and 394-402
ShapeData(xml, i, content_type, path, location) ==
  <<Item("xml", xml), Item("zorder", PyInt(i)),
    Item("content_type", content_type), Item("path", path),
    Item("location", PyList(<<LocationDict(location)>>))>>

\* lines 349-406 for the shape at paint index i: acc holds shape_data_dict
\* and the largest area of a text shape so far
ExtractShape(acc, shape, i) ==
  IF shape.is_placeholder THEN acc
  ELSE IF shape.shape_type = "picture"
    THEN [acc EXCEPT !.dict =
            Put(@, Suffixed(shape.name, i),
                ShapeData(PyNone, i, PyStr("picture"),
                          PyStr(PicturePath(shape.name)), LocationOf(shape)))]
  ELSE IF shape.shape_type = "text"
    THEN [dict |-> Put(acc.dict, Suffixed(shape.name, i),
                       ShapeData(PyStr(remove_custDataLst(ElementXml(shape))),
                                 i,
                                 IF ShapeText(shape) # <<>>
                                   THEN PyStr("content") ELSE PyNone,
                                 PyNone, LocationOf(shape))),
          area |-> Max2(acc.area, shape.height * shape.width)]
  ELSE [acc EXCEPT !.dict =
          Put(@, Suffixed(shape.name, i),
              ShapeData(PyStr(remove_custDataLst(ElementXml(shape))), i,
                        PyNone, PyNone, LocationOf(shape)))]

\* the loop of lines 348-406 from paint index i on
RECURSIVE ExtractShapes(_, _, _)
ExtractShapes(acc, shapes, i) ==
  IF i >= Len(shapes) THEN acc
  ELSE ExtractShapes(ExtractShape(acc, shapes[i + 1], i), shapes, i + 1)

\* the text are_same_shape gives every text element
PlaceholderText ==
  <<"p", "l", "a", "c", "e", "h", "o", "l", "d", "e", "r", "_", "t", "e",
    "x", "t">>

\* what are_same_shape compares of a shape: the XML without its a:xfrm,
\* with id 1, name temp and the placeholder text (lines 287-311); all
\* else, the text of p:nvPr included, is compared as it is serialised
Comparable(xml) ==
  [xml EXCEPT !.xfrm = Loc(0, 0), !.id = 1, !.name = "temp",
              !.text = IF @ = NoLine THEN NoLine ELSE PlaceholderText]

\* ComponentsManager.are_same_shape (components.py 271-322)
are_same_shape(xml1, xml2) == Comparable(xml1) = Comparable(xml2)

\* ComponentsManager.get_text_from_xml (components.py 451-456): the texts
\* of the a:t elements joined; the text of an empty element is None, which
\* str.join refuses
get_text_from_xml(xml) ==
  IF xml.text = NoLine THEN [err |-> "ok", text |-> <<>>]
  ELSE IF xml.text = <<>> THEN [err |-> "TypeError", text |-> <<>>]
  ELSE [err |-> "ok", text |-> xml.text]

\* line 417 is reached for the shape data: a text shape much smaller than
\* the largest one
IsSmallContent(data, area) ==
  /\ Get(data, "content_type") = PyStr("content")
  /\ Get(Get(data, "location").v[1].v, "height").v
       * Get(Get(data, "location").v[1].v, "width").v < area - 10000

\* lines 413-419: a text shape much smaller than the largest one is a
\* number or a title
Reclassified(data, area) ==
  IF ~IsSmallContent(data, area) THEN data
  ELSE IF isdigit(get_text_from_xml(Get(data, "xml").v).text)
    THEN Put(data, "content_type", PyStr("number"))
  ELSE Put(data, "content_type", PyStr("title"))

\* Absorb that leaves the xml of shape j
AbsorbKeeping(dict, k, j) ==
  [dict EXCEPT
     ![k].value = Put(@, "location",
                      PyList(Get(@, "location").v
                               \o Get(dict[j].value, "location").v))]

\* lines 424-427: shape k takes the locations of shape j, whose xml is set to
\* None
Absorb(dict, k, j) ==
  [dict EXCEPT
     ![k].value = Put(@, "location",
                      PyList(Get(@, "location").v
                               \o Get(dict[j].value, "location").v)),
     ![j].value = Put(@, "xml", PyNone)]

\* the inner loop of lines 421-427 for shape k, from shape j on; st holds
\* shape_data_dict and shapes_to_remove
RECURSIVE MergeOthers(_, _, _)
MergeOthers(st, k, j) ==
  IF j > Len(st.dict) THEN st
  ELSE IF j = k \/ Get(st.dict[j].value, "xml") = PyNone
    THEN MergeOthers(st, k, j + 1)
  ELSE IF are_same_shape(Get(st.dict[k].value, "xml").v,
                         Get(st.dict[j].value, "xml").v)
    THEN MergeOthers([dict |-> Absorb(st.dict, k, j),
                      remove |-> Append(st.remove, st.dict[j].key),
                      err |-> st.err],
                     k, j + 1)
  ELSE MergeOthers(st, k, j + 1)

\* the loop of lines 409-427 from shape k on; an exception of
\* get_text_from_xml (line 417) ends it
RECURSIVE MergeShapes(_, _, _)
MergeShapes(st, k, area) ==
  IF k > Len(st.dict) \/ st.err # "ok" THEN st
  ELSE IF Get(st.dict[k].value, "xml") = PyNone
    THEN MergeShapes(st, k + 1, area)
  ELSE IF /\ IsSmallContent(st.dict[k].value, area)
          /\ get_text_from_xml(Get(st.dict[k].value, "xml").v).err # "ok"
    THEN [st EXCEPT !.err =
            get_text_from_xml(Get(st.dict[k].value, "xml").v).err]
  ELSE MergeShapes(
         MergeOthers([st EXCEPT !.dict[k].value = Reclassified(@, area)],
                     k, 1),
         k + 1, area)

\* lines 429-431: the shapes marked for removal are popped
Popped(st) ==
  SelectSeq(st.dict,
            LAMBDA it : \A r \in DOMAIN st.remove : st.remove[r] # it.key)

\* lines 433-434: the shapes of the new style
RECURSIVE NewStyleShapes(_, _, _)
NewStyleShapes(shapes, dict, k) ==
  IF k > Len(dict) THEN shapes
  ELSE NewStyleShapes(Put(shapes, dict[k].key, CShape_from_dict(dict[k].value)),
                      dict, k + 1)

\* lines 408-427 on the shape data extracted from a slide
StyleMerged(extracted) ==
  MergeShapes([dict |-> extracted.dict, remove |-> <<>>, err |-> "ok"], 1,
              extracted.area)

\* lines 343-434: the style extracted from the shapes of a slide
StyleFromShapes(extracted) ==
  NewStyleShapes(<<>>, Popped(StyleMerged(extracted)), 1)

\* AddStyle without the check of line 338
AddStyleOverwriting(catalog, shapes, name, layout, style_name) ==
  IF layout.err # "ok" THEN [err |-> layout.err, catalog |-> catalog]
  ELSE IF ~layout.found \/ layout.styles = <<>>
    THEN [err |-> "ValueError", catalog |-> catalog]
  ELSE IF StyleMerged(ExtractShapes([dict |-> <<>>, area |-> 0],
                                    shapes, 0)).err # "ok"
    THEN [err |-> StyleMerged(ExtractShapes([dict |-> <<>>, area |-> 0],
                                            shapes, 0)).err,
          catalog |-> catalog]
  ELSE [err |-> "ok",
        catalog |-> Put(catalog, name,
                        Put(layout.styles, style_name,
                            StyleFromShapes(
                              ExtractShapes([dict |-> <<>>, area |-> 0],
                                            shapes, 0))))]

\* lines 336-436 with the layout found
AddStyle(catalog, shapes, name, layout, style_name) ==
  IF layout.err # "ok" THEN [err |-> layout.err, catalog |-> catalog]
  ELSE IF ~layout.found \/ layout.styles = <<>>
    THEN [err |-> "ValueError", catalog |-> catalog]
  ELSE IF HasKey(layout.styles, style_name)
    THEN [err |-> "ValueError", catalog |-> catalog]
  ELSE IF StyleMerged(ExtractShapes([dict |-> <<>>, area |-> 0],
                                    shapes, 0)).err # "ok"
    THEN [err |-> StyleMerged(ExtractShapes([dict |-> <<>>, area |-> 0],
                                            shapes, 0)).err,
          catalog |-> catalog]
  ELSE [err |-> "ok",
        catalog |-> Put(catalog, name,
                        Put(layout.styles, style_name,
                            StyleFromShapes(
                              ExtractShapes([dict |-> <<>>, area |-> 0],
                                            shapes, 0))))]

\* ComponentsManager.add_style_from_slide (components.py 324-436);
\* layout_type is a ChapterLayout member or a str (see get_layout_type)
add_style_from_slide(catalog, slide, layout_type, style_name) ==
  AddStyle(catalog, slide.shapes,
           IF layout_type.type = "ChapterLayout"
             THEN ChapterLayoutNames[layout_type.value] ELSE layout_type.value,
           get_layout_type(catalog, layout_type), style_name)

\* ------------------------------------------------ style catalog: the state
\* the shapes a slide is made of: a large text box, a small text box of the
\* same form that carries customer data, a small text box of the same form
\* without, a small text box with a number, a picture, a connector and the
\* title placeholder
ShapePool ==
  {SlideShape("body", "text", <<"t">>, "body", FALSE, 200, 100),
   SlideShape("note", "text", <<"s">>, "body", TRUE, 20, 10),
   SlideShape("twin", "text", <<"u">>, "body", FALSE, 20, 10),
   SlideShape("mark", "text", <<"1">>, "mark", FALSE, 20, 10),
   SlideShape("photo", "picture", NoLine, "photo", FALSE, 50, 50),
   SlideShape("line", "other", NoLine, "line", FALSE, 50, 1),
   SlideShape("title", "placeholder", <<"t">>, "title", FALSE, 300, 50)}

\* the shapes of a slide in paint order, each at a place of its own
Painted(shapes) ==
  [i \in DOMAIN shapes |->
     [shapes[i] EXCEPT !.left = 10 * i, !.shape_id = i + 1]]

\* the slides of up to MaxShapes shapes
StyleSlides ==
  {[NewSlide("content", "template") EXCEPT !.shapes = Painted(shapes)] :
     shapes \in UNION {[1..n -> ShapePool] : n \in 0..MaxShapes}}

\* a components file written earlier that knows one layout only
EarlierFile ==
  save_to_json(<<Item("three_points", <<Item("style_1", <<>>)>>)>>)

\* the manager holds the components loaded at import; a slide of a
\* presentation is at hand; json_path names no file or an earlier one
StyleInit ==
  /\ SetHeap(EmptyHeap)
  /\ err = "ok"
  /\ ret = <<>>
  /\ op = NoOp
  /\ generator = NoGenerator
  /\ pre = Heap
  /\ \E slide \in StyleSlides : slides = <<slide>>
  /\ selected_style = None
  /\ used_pictures = NoPictures
  /\ layout_types = ExampleCatalog
  /\ json_file \in {NoFile, EarlierFile}
  /\ call = NoCall

StyleReady == err = "ok" /\ call.count < MaxSteps

\* a call on the manager and what it leaves: catalog, file and exception
StyleCommit(name, content, style_name, catalog, file, e) ==
  /\ layout_types' = catalog
  /\ json_file' = file
  /\ err' = e
  /\ call' = [name |-> name, content |-> content, index |-> 0, number |-> 0,
              before |-> layout_types, style |-> style_name,
              count |-> call.count + 1]
  /\ UNCHANGED <<tvars, op, pre, generator,
                 ret, slides, selected_style, used_pictures>>

\* the layouts and style names a caller asks for
LayoutArgs == <<Member(1), Member(3), LayoutStr("one_point")>>
StyleNames == {"style_1", "style_9"}

DoAddStyle(layout_type, style_name) ==
  /\ StyleReady
  /\ StyleCommit("add_style", <<layout_type>>, style_name,
                 add_style_from_slide(layout_types, slides[1], layout_type,
                                      style_name).catalog,
                 json_file,
                 add_style_from_slide(layout_types, slides[1], layout_type,
                                      style_name).err)

DoSave ==
  /\ StyleReady
  /\ StyleCommit("save", <<>>, "", layout_types, save_to_json(layout_types),
                 "ok")

\* ComponentsManager(json_path): a new manager loads the file
DoLoad ==
  /\ StyleReady
  /\ StyleCommit("load", <<>>, "", load_from_json(<<>>, json_file).catalog,
                 json_file, load_from_json(<<>>, json_file).err)

DoReload ==
  /\ StyleReady
  /\ StyleCommit("reload", <<>>, "", reload(layout_types, json_file).catalog,
                 json_file, reload(layout_types, json_file).err)

StyleNext ==
  \/ \E a \in DOMAIN LayoutArgs, style_name \in StyleNames :
       DoAddStyle(LayoutArgs[a], style_name)
  \/ DoSave
  \/ DoLoad
  \/ DoReload

StyleSpec == StyleInit /\ [][StyleNext]_vars

\* ============================================================ tree claims

\* Element.children: the node's contents
children(h, n) == ContentsOf(h, n)

\* the proper ancestors of n along parent
RECURSIVE AncestorsOf(_, _, _)
AncestorsOf(h, n, seen) ==
  IF h.parent[n] \notin Node \/ h.parent[n] \in seen THEN {}
  ELSE {h.parent[n]} \cup AncestorsOf(h, h.parent[n], seen \cup {h.parent[n]})

\* the nodes below x
SubtreeOf(h, x) == {m \in Node : x \in AncestorsOf(h, m, {})}

\* the next sibling of the nearest of n and its ancestors that has one
RECURSIVE NextOfNearest(_, _, _)
NextOfNearest(h, n, seen) ==
  IF n \notin Node \/ n \in seen THEN None
  ELSE IF h.next_sibling[n] \in Node THEN h.next_sibling[n]
  ELSE NextOfNearest(h, h.parent[n], seen \cup {n})

ExpectedNext(h, n) ==
  IF Len(children(h, n)) > 0 THEN children(h, n)[1]
  ELSE NextOfNearest(h, n, {})

InTree(h, n) == h.parent[n] \in Node \/ \E m \in Node : h.parent[m] = n

\* the walk over next_element that starts at n
RECURSIVE ChainFrom(_, _, _)
ChainFrom(ne, n, seen) ==
  IF n \notin Node \/ n \in seen THEN <<>>
  ELSE <<n>> \o ChainFrom(ne, ne[n], seen \cup {n})

Chain(ne, n) == ChainFrom(ne, n, {})

Keep(s, set) == SelectSeq(s, LAMBDA e : e \in set)
Drop(s, set) == SelectSeq(s, LAMBDA e : e \notin set)

RECURSIVE SumSubtrees(_, _)
SumSubtrees(h, cs) ==
  IF cs = <<>> THEN 0
  ELSE 1 + Cardinality(SubtreeOf(h, Head(cs))) + SumSubtrees(h, Tail(cs))

Attached(h, x) ==
  /\ h.parent[x] \in Node
  /\ x \in Range(children(h, h.parent[x]))

Offending(self, x) == x = None \/ x = self \/ x = StrArg

\* C1: after append/insert/extract calls, every node of a tree has as
\* next_element its first child if it has children, else the next sibling of
\* the nearest of itself and its ancestors that has one, else None.
C1_NextElementInvariant ==
  err = "ok" =>
    \A n \in Elems : InTree(Heap, n) => next_element[n] = ExpectedNext(Heap, n)

\* C2: descendants yields exactly the nodes of the subtree, each once, every
\* node after its parent, nothing for a node without children, and as many
\* nodes as the sum over the children of 1 + their number of descendants.
C2_DescendantsExact ==
  (op.name = "descendants" /\ op.self \in Elems) =>
    /\ err = "ok"
    /\ Range(ret) = SubtreeOf(Heap, op.self)
    /\ \A i, j \in DOMAIN ret : ret[i] = ret[j] => i = j
    /\ \A i \in DOMAIN ret :
         \/ parent[ret[i]] = op.self
         \/ \E j \in 1..(i - 1) : ret[j] = parent[ret[i]]
    /\ children(Heap, op.self) = <<>> => ret = <<>>
    /\ Len(ret) = SumSubtrees(Heap, children(Heap, op.self))

\* C3: extract() of an attached node x returns x with parent,
\* previous_element, previous_sibling and next_sibling None, the walk from x
\* stays in x's subtree and is the walk it was, x has left its former
\* parent's children, and the walk from every other node is the walk before
\* the call without x's subtree.
C3_ExtractDetaches ==
  (op.name = "extract" /\ Attached(pre, op.self)) =>
    LET x == op.self
        sub == SubtreeOf(pre, x) \cup {x}
    IN /\ err = "ok"
       /\ ret = <<x>>
       /\ parent[x] = None
       /\ previous_element[x] = None
       /\ previous_sibling[x] = None
       /\ next_sibling[x] = None
       /\ x \notin Range(children(Heap, pre.parent[x]))
       /\ Range(Chain(next_element, x)) \subseteq sub
       /\ Chain(next_element, x) = Keep(Chain(pre.next_element, x), sub)
       /\ \A r \in Elems \ sub :
            Chain(next_element, r) = Drop(Chain(pre.next_element, r), sub)

\* C4: insert and append raise when an argument is None, the receiver or a
\* str: the call does not return normally and does not add the argument to
\* contents; when it is the first argument, the error is raised before
\* anything has changed.
C4_RejectsOffending ==
  (op.name \in {"insert", "append"}
     /\ \E i \in DOMAIN op.args : Offending(op.self, op.args[i])) =>
    /\ err # "ok"
    /\ \A i \in DOMAIN op.args :
         Offending(op.self, op.args[i]) =>
           \A n \in Receivers :
             Cardinality({k \in DOMAIN children(Heap, n) :
                            children(Heap, n)[k] = op.args[i]})
               <= Cardinality({k \in DOMAIN children(pre, n) :
                                 children(pre, n)[k] = op.args[i]})
    /\ Offending(op.self, op.args[1]) =>
         /\ err = (IF op.args[1] = StrArg THEN "TypeError" ELSE "ValueError")
         /\ Heap = pre

C4_Witness ==
  /\ op.name = "insert"
  /\ Len(op.args) = 2
  /\ op.args[1] \in Elems
  /\ op.args[2] = op.self
  /\ err = "ValueError"
  /\ contents = <<op.args[1]>>
  /\ pre.contents = <<>>

\* C5: inserting a node that has a parent moves it: the call returns, the
\* node is in exactly one children list, its parent is the receiver, its
\* former parent no longer lists it, the links around it are those of C1;
\* inserting it at the index it has in the same parent changes nothing.
C5_MoveSemantics ==
  (op.name \in {"insert", "append"} /\ Len(op.args) = 1
     /\ op.self \in Elems /\ op.args[1] \in Elems /\ op.args[1] # op.self
     /\ op.position >= 0 /\ pre.parent[op.args[1]] \in Node) =>
    LET x == op.args[1]
        old == pre.parent[x]
    IN /\ err = "ok"
       /\ parent[x] = op.self
       /\ Cardinality({n \in Receivers : x \in Range(children(Heap, n))}) = 1
       /\ old # op.self => x \notin Range(children(Heap, old))
       /\ next_element[x] = ExpectedNext(Heap, x)
       /\ next_element[op.self] = ExpectedNext(Heap, op.self)
       /\ next_element[old] = ExpectedNext(Heap, old)
       /\ (old = op.self
             /\ index(pre, old, x) - 1
                  = Min2(op.position, Len(children(pre, old))))
            => Heap = pre

\* C6: insert(position, n1..nk) puts the nodes at consecutive indices from
\* min(position, number of children) on, in argument order, a
\* MarkdownDocument argument being replaced by its children.
RECURSIVE Spliced(_, _)
Spliced(h, args) ==
  IF args = <<>> THEN <<>>
  ELSE (IF h.kind[Head(args)] = "MarkdownDocument"
          THEN children(h, Head(args)) ELSE <<Head(args)>>)
       \o Spliced(h, Tail(args))

C6_InsertPositions ==
  (/\ op.name = "insert"
   /\ op.position >= 0
   /\ \A i \in DOMAIN op.args :
        /\ op.args[i] \in Node
        /\ op.args[i] # op.self
        /\ pre.parent[op.args[i]] \notin Node
   /\ \A i, j \in DOMAIN op.args : op.args[i] = op.args[j] => i = j
   /\ op.self \in Elems) =>
    LET want == Spliced(pre, op.args)
        at == Min2(op.position, Len(children(pre, op.self)))
    IN /\ err = "ok"
       /\ Len(children(Heap, op.self)) >= at + Len(want)
       /\ \A i \in DOMAIN want : children(Heap, op.self)[at + i] = want[i]
       /\ \A i \in DOMAIN want : kind[want[i]] # "MarkdownDocument"

\* ========================================================== parser claims
\* parse has returned or has raised
Finished == parser.status = "done" \/ err # "ok"

\* the nodes the parser has constructed
Created == {n \in Node : kind[n] \notin {"free", "MarkdownDocument"}}

\* C7: after parsing, every Heading's parent is the root or a Heading of
\* strictly smaller level; "# A\n## B\n### C\n## D" yields A as main, B and D
\* as children of A and C as a child of B.
C7_HeadingNesting ==
  (parser.status # "none" /\ Finished) =>
    /\ \A n \in Node :
         kind[n] = "Heading" =>
           \/ parent[n] = Doc
           \/ /\ parent[n] \in Node
              /\ kind[parent[n]] = "Heading"
              /\ level[parent[n]] < level[n]
    /\ parser.strings = HeadingsExample =>
         \E a, b, c, d \in Node :
           /\ _text[a] = <<"A">> /\ _text[b] = <<"B">>
           /\ _text[c] = <<"C">> /\ _text[d] = <<"D">>
           /\ main = a
           /\ parent[a] = Doc
           /\ parent[b] = a
           /\ parent[d] = a
           /\ parent[c] = b

\* C8: parse returns without raising an error for every text.
C8_ParseNeverRaises ==
  parser.status # "none" => err = "ok"

\* C9: "|a|b|" followed by "|---|---|" puts the parser into Markdown-table
\* mode and results in a Table node; "|a|b|" followed by a line that is no
\* separator opens no table and both lines become Paragraph nodes.
C9_TableDetection ==
  /\ (parser.strings = DashTableExample /\ parser.index >= 1) =>
       \/ parser.in_table_block /\ parser.table_type = "markdown"
       \/ \E n \in Node : kind[n] = "Table"
  /\ (parser.strings = DashTableExample /\ Finished) =>
       /\ err = "ok"
       /\ \E n \in Node : kind[n] = "Table" /\ parent[n] \in Node
  /\ (parser.strings = NoTableExample /\ Finished) =>
       /\ err = "ok"
       /\ \A n \in Created : kind[n] = "Paragraph" /\ parent[n] \in Node
       /\ \E n, m \in Created :
            /\ _text[n] = NoTableExample[1]
            /\ _text[m] = NoTableExample[2]
            /\ Created = {n, m}

\* C10: "Title\n=====\n" and "# Title\n" parse to the same tree, a single
\* Heading of level 1 and text "Title" under the root, recorded as main.
C10_SetextEqualsAtx ==
  (parser.strings \in {SetextExample, AtxExample} /\ Finished) =>
    /\ err = "ok"
    /\ \E n \in Node :
         /\ Created = {n}
         /\ kind[n] = "Heading"
         /\ level[n] = 1
         /\ _text[n] = SetextExample[1]
         /\ parent[n] = Doc
         /\ main = n

\* ======================================================== generator claims
\* the slides the last call added to the deck
Added == Len(slides) - Len(call.before)

\* the shapes of a catalog slide in the column of the chapter numbers and
\* in the column of the labels, from the top
ColumnOf(slide, column) ==
  SelectSeq(slide.shapes, LAMBDA shape : shape.left = column.left)

\* the slots of the catalog slide the last call was given
SlotsBefore == Len(ColumnOf(call.before[call.index + 1], NumberOfSlot(1)))

\* the catalog entries of a slide: the text of each chapter number with the
\* text of the label beside it
EntriesOn(slide) ==
  [i \in DOMAIN ColumnOf(slide, NumberOfSlot(1)) |->
     [number |-> ColumnOf(slide, NumberOfSlot(1))[i].text,
      label |-> ColumnOf(slide, LabelOfSlot(1))[i].text]]

\* the catalog entries of the slides at positions a..b, in deck order
RECURSIVE EntriesOf(_, _, _)
EntriesOf(deck, a, b) ==
  IF a > b THEN <<>> ELSE EntriesOn(deck[a]) \o EntriesOf(deck, a + 1, b)

\* the entry of chapter i of a chapter list
Entry(content, i) ==
  [number |-> zfill(Str(i), 2), label |-> _text[content[i]]]

\* C11: when CatalogPage.generate_slide gets more chapters than the catalog
\* slide has slots, it adds duplicates of the catalog slide right after it,
\* and the entries of the catalog slides, read in deck order, are the
\* chapters in order, chapter i numbered i with two digits, none missing and
\* none repeated.
C11_CatalogOverflow ==
  (call.name = "catalog" /\ err = "ok" /\ Len(call.content) > SlotsBefore)
    => /\ Added >= 1
       /\ \A p \in (call.index + 2)..(call.index + 1 + Added) :
            slides[p].layout = "catalog" /\ slides[p].source = "generated"
       /\ EntriesOf(slides, call.index + 1, call.index + 1 + Added)
            = [i \in 1..Len(call.content) |-> Entry(call.content, i)]

\* C12: CatalogPage.generate_slide returns the index of the last catalog
\* slide, its catalog_page_index plus the number of slides it added; on the
\* template the three slides after that index are the chapter-home, the
\* chapter-content and the end slide of the template.
C12_CatalogReturnsLast ==
  (call.name = "catalog" /\ err = "ok")
    => /\ ret = call.index + Added
       /\ call.before = Template(SlotsBefore)
            => /\ slides[ret + 2] = NewSlide("home", "template")
               /\ slides[ret + 3] = NewSlide("content", "template")
               /\ slides[ret + 4] = NewSlide("end", "template")

\* the sub-sections of the chapter the content page was called for, and the
\* style drawn for that many points
SubSections == ContentsOf(Heap, call.content[1])
ChosenStyle ==
  get_random_style(layout_types, Member(Len(SubSections)), call.number)

\* a content page is asked for a level-2 chapter with one to four
\* sub-sections, from a slide of the deck, and a style exists for it
ContentCase ==
  /\ call.name = "content"
  /\ call.index < Len(call.before)
  /\ level[call.content[1]] = 2
  /\ Len(SubSections) \in 1..4
  /\ ChosenStyle.found

\* the style has a CONTENT or TITLE shape whose locations are not as many as
\* the sub-sections
Mismatch ==
  \E i \in DOMAIN ChosenStyle.shapes :
    /\ ChosenStyle.shapes[i].value.content_type \in {"content", "title"}
    /\ Len(ChosenStyle.shapes[i].value.location) # Len(SubSections)

\* C14: when the chosen style has a CONTENT or TITLE shape whose number of
\* locations differs from the number of sub-sections of the chapter,
\* ChapterContentPage.generate_slide raises PPTGenError (and so does not
\* return normally).
C14_MismatchRaises ==
  (ContentCase /\ Mismatch) => err = "PPTGenError"

\* the text instance idx (0-based) of a shape is to carry
ExpectedText(shape, idx) ==
  IF shape.content_type = "content"
    THEN get_text(Heap, SubSections[idx + 1]).text
  ELSE IF shape.content_type = "title" THEN _text[SubSections[idx + 1]]
  ELSE IF shape.content_type = "number" THEN zfill(Str(idx + 1), 2)
  ELSE shape.xml.text

\* the instances of the shapes of a style, in ascending zorder and, for each
\* shape, in the order of its locations
RECURSIVE ExpectedShapes(_)
ExpectedShapes(sorted) ==
  IF sorted = <<>> THEN <<>>
  ELSE [i \in DOMAIN Head(sorted).value.location |->
          [text |-> ExpectedText(Head(sorted).value, i - 1),
           form |-> Head(sorted).value.xml.form,
           location |-> Head(sorted).value.location[i]]]
       \o ExpectedShapes(Tail(sorted))

\* what the last slide of the deck shows of its inserted shapes
ShownShapes ==
  [i \in DOMAIN slides[Len(slides)].shapes |->
     [text |-> slides[Len(slides)].shapes[i].xml.text,
      form |-> slides[Len(slides)].shapes[i].xml.form,
      location |-> slides[Len(slides)].shapes[i].location]]

\* C15: for a chapter with sub-sections and a style whose CONTENT and TITLE
\* shapes have one location per sub-section, ChapterContentPage.generate_slide
\* returns with a new slide whose inserted shapes are the style's shapes in
\* ascending zorder, one instance per location in list order, instance i
\* carrying the body text (CONTENT), the title (TITLE) of sub-section i or
\* the number i+1 with two digits (NUMBER), other shapes with their own text.
C15_ShapesInOrder ==
  (ContentCase /\ ~Mismatch)
    => /\ err = "ok"
       /\ Len(slides) = Len(call.before) + 1
       /\ ShownShapes = ExpectedShapes(SortByZorder(ChosenStyle.shapes, <<>>))

\* the chapter numbers written on the generated home pages are renderings
\* in the selected style
HomeNumbersInStyle ==
  \A i \in DOMAIN slides :
    (slides[i].layout = "home" /\ slides[i].source = "generated"
       /\ slides[i].number # <<>>)
      => \E k \in ChapterNumbers :
           slides[i].number = RenderChapterNumber(selected_style, k)

\* C19: once ChapterHomePage.selected_style is set no call changes it, a
\* call of convert_chapter_number returns the rendering in that style, and
\* the numbers of all chapter home pages of the deck are renderings in it.
C19_StyleChosenOnce ==
  [][/\ selected_style # None => selected_style' = selected_style
     /\ (call'.name = "convert" /\ err' = "ok")
          => ret' = RenderChapterNumber(selected_style', call'.number)
     /\ HomeNumbersInStyle']_vars

\* a second chapter home page was numbered after the style had been chosen
C19_Witness ==
  /\ call.name = "home" /\ err = "ok" /\ call.style # None
  /\ Cardinality({i \in DOMAIN slides :
                    slides[i].layout = "home" /\ slides[i].source = "generated"
                      /\ slides[i].number # <<>>}) = 2


\* ===================================================== style catalog claims
\* the shapes of the slide the style is taken from, and those that are
\* extracted with their XML
SlideShapes == slides[1].shapes
Extracted == {i \in DOMAIN SlideShapes : ~SlideShapes[i].is_placeholder}
WithXml == {i \in Extracted : SlideShapes[i].shape_type # "picture"}
StoredXml(i) == remove_custDataLst(ElementXml(SlideShapes[i]))
SameAs(i) == {j \in WithXml : are_same_shape(StoredXml(i), StoredXml(j))}
FirstOccurrences == {i \in WithXml : \A j \in SameAs(i) : i <= j}

\* the locations of the shapes of a set, in paint order from shape i on
RECURSIVE LocationsInPaintOrder(_, _)
LocationsInPaintOrder(group, i) ==
  IF i > Len(SlideShapes) THEN <<>>
  ELSE (IF i \in group THEN <<LocationOf(SlideShapes[i])>> ELSE <<>>)
         \o LocationsInPaintOrder(group, i + 1)

\* the content type a shape is given as the first of its kind: a text shape
\* with text holds content unless it is much smaller than the largest text
\* shape, and then a number or a title
FirstContentType(i) ==
  IF SlideShapes[i].shape_type # "text" \/ ShapeText(SlideShapes[i]) = <<>>
    THEN "None"
  ELSE IF \A j \in Extracted :
            SlideShapes[j].shape_type = "text"
              => SlideShapes[i].height * SlideShapes[i].width
                   >= SlideShapes[j].height * SlideShapes[j].width - 10000
    THEN "content"
  ELSE IF isdigit(SlideShapes[i].text) THEN "number"
  ELSE "title"

\* a style was added by the last call, and the shapes it was given
StyleAdded == call.name = "add_style" /\ err = "ok"
AddedShapes ==
  Get(Get(layout_types, ChapterLayoutNames[call.content[1].value]), call.style)
ShapesLike(i) ==
  {k \in DOMAIN AddedShapes :
     /\ AddedShapes[k].value.xml # NoXml
     /\ are_same_shape(AddedShapes[k].value.xml, StoredXml(i))}
PlacesOf(i) ==
  {<<k, l>> \in (DOMAIN AddedShapes) \X (1..MaxShapes) :
     /\ l \in DOMAIN AddedShapes[k].value.location
     /\ AddedShapes[k].value.location[l] = LocationOf(SlideShapes[i])}

\* C16: add_style_from_slide turns the shapes of a slide that are the same
\* shape into one CShape: it has the xml, the paint index and the content
\* type of the first of them and the locations of all of them in paint
\* order; the location of every extracted shape is in exactly one CShape of
\* the style, and no two CShapes with xml are the same shape.
C16_SameShapesMerged ==
  StyleAdded =>
    /\ \A i \in FirstOccurrences :
         /\ Cardinality(ShapesLike(i)) = 1
         /\ \A k \in ShapesLike(i) :
              /\ AddedShapes[k].value.xml = StoredXml(i)
              /\ AddedShapes[k].value.zorder = i - 1
              /\ AddedShapes[k].value.content_type = FirstContentType(i)
              /\ AddedShapes[k].value.location
                   = LocationsInPaintOrder(SameAs(i), 1)
    /\ \A i \in Extracted : Cardinality(PlacesOf(i)) = 1
    /\ \A k, m \in DOMAIN AddedShapes :
         (/\ k # m
          /\ AddedShapes[k].value.xml # NoXml
          /\ AddedShapes[m].value.xml # NoXml)
           => ~are_same_shape(AddedShapes[k].value.xml,
                              AddedShapes[m].value.xml)

\* two shapes of one kind, each with a size and a text of its own, were
\* merged into one CShape with two locations, and a shape of their form
\* that carried customer data was kept apart
C16_Witness ==
  /\ StyleAdded
  /\ \E i \in FirstOccurrences :
       /\ Cardinality(SameAs(i)) = 2
       /\ \E j \in SameAs(i) :
            /\ SlideShapes[j].text # SlideShapes[i].text
            /\ SlideShapes[j].width # SlideShapes[i].width
       /\ \E k \in ShapesLike(i) : Len(AddedShapes[k].value.location) = 2
       /\ \E m \in WithXml \ SameAs(i) :
            /\ SlideShapes[m].custDataLst
            /\ SlideShapes[m].form = SlideShapes[i].form

\* the layout the last add_style call named, and what the catalog held of it
\* before the call
TargetLayout ==
  IF call.content[1].type = "ChapterLayout"
    THEN ChapterLayoutNames[call.content[1].value]
  ELSE call.content[1].value
LayoutMissing == ~HasKey(call.before, TargetLayout)
StyleExists ==
  /\ HasKey(call.before, TargetLayout)
  /\ HasKey(Get(call.before, TargetLayout), call.style)

\* C17: add_style_from_slide raises when the catalog has no layout of the
\* name asked for and when the layout already has a style of the name given,
\* and leaves the catalog as it was.
C17_NoOverwrite ==
  (call.name = "add_style" /\ (LayoutMissing \/ StyleExists))
    => /\ err # "ok"
       /\ layout_types = call.before

\* a style name that is taken was refused with ValueError for a slide whose
\* shapes differ from those of the style of that name
C17_Witness ==
  /\ call.name = "add_style"
  /\ call.content[1].type = "ChapterLayout"
  /\ StyleExists
  /\ err = "ValueError"
  /\ Get(Get(layout_types, TargetLayout), call.style)
       # StyleFromShapes(ExtractShapes([dict |-> <<>>, area |-> 0],
                                       slides[1].shapes, 0))

\* the catalogs a manager may hold when it reloads a file
HeldCatalogs == {layout_types, ExampleCatalog, <<>>}

\* C18: the file save_to_json writes, loaded into an empty manager or
\* reloaded by a manager whatever it holds, gives the catalog that was saved:
\* the same layouts, styles and shapes with the same xml, zorder,
\* content_type, path and list of locations; and after reload the catalog
\* holds the layouts of the file and no other.
C18_RoundTrip ==
  /\ call.name = "save"
       => /\ load_from_json(<<>>, json_file).err = "ok"
          /\ load_from_json(<<>>, json_file).catalog = layout_types
          /\ \A held \in HeldCatalogs :
               /\ reload(held, json_file).err = "ok"
               /\ reload(held, json_file).catalog = layout_types
  /\ (call.name = "reload" /\ err = "ok")
       => /\ \A k \in DOMAIN layout_types :
               HasKey(json_file.v, layout_types[k].key)
          /\ save_to_json(layout_types) = json_file

\* a catalog with a style taken from a slide, one of whose shapes has two
\* locations and another no xml, was saved and reloaded
C18_Witness ==
  /\ call.name = "reload"
  /\ err = "ok"
  /\ HasKey(layout_types, "one_point")
  /\ HasKey(Get(layout_types, "one_point"), "style_9")
  /\ \E k \in DOMAIN Get(Get(layout_types, "one_point"), "style_9") :
       Len(Get(Get(layout_types, "one_point"), "style_9")[k].value.location)
         = 2
  /\ \E k \in DOMAIN Get(Get(layout_types, "one_point"), "style_9") :
       Get(Get(layout_types, "one_point"), "style_9")[k].value.xml = NoXml

\* ================================================== tree claims, continued
\* C20: after any calls of setup, append, insert and extract, the links
\* agree: a.next_element is b exactly when b.previous_element is a, and the
\* children c0..ck of every node p have p as parent, the child after them as
\* next_sibling (None for ck) and the child before them as previous_sibling
\* (None for c0).
C20_LinksConsistent ==
  err = "ok" =>
    /\ \A a, b \in Elems :
         (next_element[a] = b) <=> (previous_element[b] = a)
    /\ \A p \in Elems :
         \A i \in DOMAIN children(Heap, p) :
           /\ parent[children(Heap, p)[i]] = p
           /\ next_sibling[children(Heap, p)[i]]
                = (IF i < Len(children(Heap, p))
                     THEN children(Heap, p)[i + 1] ELSE None)
           /\ previous_sibling[children(Heap, p)[i]]
                = (IF i > 1 THEN children(Heap, p)[i - 1] ELSE None)

\* ================================================ parser claims, continued
\* the line at hand is recognised as a Setext heading, or as the first line
\* of a Markdown table
SetextRecognised ==
  /\ Dispatch
  /\ Handler = "process_heading"
  /\ HeadingMatch(rstrip(CurLine), CurNext).setext
TableStartRecognised ==
  /\ Dispatch
  /\ Handler = "process_table"
  /\ is_markdown_table_start(rstrip(CurLine), CurNext)

\* C21: when a Setext heading or a Markdown table start is recognised on a
\* line, the loop goes on with jump_to_next set; the next iteration clears
\* jump_to_next and skips exactly that one line, leaving everything else as
\* it is, so that the line after it is processed; and jump_to_next is set in
\* no other situation.
C21_PushbackOneLine ==
  [][/\ (SetextRecognised \/ TableStartRecognised)
          => /\ err' = "ok"
             /\ parser'.jump_to_next
             /\ parser'.index = parser.index + 1
     /\ parser.jump_to_next
          => /\ parser' = [parser EXCEPT !.jump_to_next = FALSE,
                                         !.index = @ + 1]
             /\ UNCHANGED <<kind, parent, contents, _text, main, err>>
     /\ parser'.jump_to_next
          => (SetextRecognised \/ TableStartRecognised)]_vars

\* the parser is inside a Markdown table and the line at hand is blank or
\* does not start with "|"
TableEndingLine ==
  /\ InLoop
  /\ ~parser.jump_to_next
  /\ parser.in_table_block
  /\ parser.table_type = "markdown"
  /\ \/ strip(CurLine) = <<>>
     \/ ~startswith(strip(CurLine), <<"|">>)

\* the nodes constructed by the step
NewlyCreated == {n \in Node : kind[n] = "free" /\ kind'[n] # "free"}

\* C22: inside a Markdown table, a line that is blank or does not start with
\* "|" closes the table and is not consumed by it: the step emits the Table
\* and leaves table mode, and the line is still handled as any other line,
\* either by the next iteration or by a node of its own if it is not blank.
C22_TableEndNotConsumed ==
  [][TableEndingLine
       => /\ err' = "ok"
          /\ ~parser'.in_table_block
          /\ \E n \in NewlyCreated : kind'[n] = "Table"
          /\ \/ parser'.index = parser.index
             \/ strip(CurLine) = <<>>
             \/ \E n \in NewlyCreated :
                  kind'[n] \in {"Paragraph", "Heading", "Picture"}]_vars

\* the line on which the Markdown table at hand began: the last line up to
\* the current one that is a table start
TableHeaderAt ==
  CHOOSE k \in 1..(parser.index + 1) :
    /\ k < Len(parser.strings)
    /\ is_markdown_table_start(rstrip(parser.strings[k]), parser.strings[k + 1])
    /\ \A j \in (k + 1)..(parser.index + 1) :
         ~(/\ j < Len(parser.strings)
           /\ is_markdown_table_start(rstrip(parser.strings[j]),
                                      parser.strings[j + 1]))

\* the header line and the data rows of that table up to the current line,
\* which counts if it is a row
HeaderAndRows ==
  <<parser.strings[TableHeaderAt]>>
    \o SubSeq(parser.strings, TableHeaderAt + 2,
              IF TableEndingLine THEN parser.index ELSE parser.index + 1)

\* C23: the separator line of a Markdown table is consumed but not stored:
\* the table start buffers the header line only, and the text and the row
\* count of the Table that is emitted are those of the header line and the
\* data rows.
C23_SeparatorNotStored ==
  [][/\ TableStartRecognised => parser'.table_lines = <<rstrip(CurLine)>>
     /\ \A n \in NewlyCreated :
          (kind'[n] = "Table" /\ parser.table_type = "markdown")
            => /\ _text'[n] = join(StripAll(HeaderAndRows))
               /\ row_number'[n] = Len(HeaderAndRows)]_vars

\* ================================================ catalog page: the state
\* a presentation opened from a template: the cover and the catalog slide;
\* the headings are fresh, or one of them was decomposed
CatalogInit ==
  /\ \E h \in {FreshHeap, decompose(FreshHeap, 3)} : SetHeap(h)
  /\ err = "ok"
  /\ ret = <<>>
  /\ op = NoOp
  /\ generator = NoGenerator
  /\ pre = Heap
  /\ \E slide \in CatalogTemplates :
       slides = <<[NewSlide("cover", "template") EXCEPT !.title = <<"t">>],
                  slide>>
  /\ selected_style = None
  /\ used_pictures = NoPictures
  /\ layout_types = ExampleCatalog
  /\ json_file = <<>>
  /\ call = NoCall

\* the catalog items of the catalog slide are asked for
DoGetCatalogItems ==
  /\ GenReady
  /\ \E found \in {_get_catalog_items(slides[2])} :
       /\ err' = found.err
       /\ ret' = found.list
  /\ call' = Called("items", <<>>, 1, 0)
  /\ UNCHANGED <<tvars, op, pre, generator,
                 slides, selected_style, layout_types,
                 json_file, used_pictures>>

\* CatalogPage.generate_slide(prs, content)
DoCatalogSlide(content) ==
  /\ GenReady
  /\ GenCommit(CatalogPage_generate_slide(Gen, Heap, content, 1, 1),
               Called("catalog", content, 1, 0))

CatalogNext ==
  \/ DoGetCatalogItems
  \/ \E content \in ChapterLists : DoCatalogSlide(content)

CatalogSpec == CatalogInit /\ [][CatalogNext]_vars

\* ============================================================ picture pools
\* the files random.choice can take; without one the call raises
Choices(used, picture_path) ==
  IF picture_type(picture_path) = "None"
       \/ available_pictures(used, picture_path) = <<>>
    THEN {NoLine}
  ELSE Range(available_pictures(used, picture_path))

\* no picture was asked for yet
PictureInit ==
  /\ SetHeap(EmptyHeap)
  /\ err = "ok"
  /\ ret = <<>>
  /\ op = NoOp
  /\ generator = NoGenerator
  /\ pre = Heap
  /\ slides = <<>>
  /\ selected_style = None
  /\ used_pictures = NoPictures
  /\ layout_types = ExampleCatalog
  /\ json_file = <<>>
  /\ call = NoCall

\* ChapterContentPage._get_picture(picture_path); the call record keeps the
\* directory, the used pictures before the call and, in content, the
\* directory and the file of every picture returned so far
DoGetPicture(picture_path, chosen_picture) ==
  /\ err = "ok"
  /\ call.count < MaxPictureCalls
  /\ \E r \in {_get_picture(used_pictures, picture_path, chosen_picture)} :
       /\ err' = r.err
       /\ ret' = r.ret
       /\ used_pictures' = r.used
       /\ call' = [name |-> "picture",
                   content |-> IF r.err = "ok"
                                 THEN Append(call.content,
                                        [path |-> picture_path,
                                         picture |-> chosen_picture])
                                 ELSE call.content,
                   index |-> 0, number |-> 0, before |-> used_pictures,
                   style |-> picture_path, count |-> call.count + 1]
  /\ UNCHANGED <<tvars, op, pre, generator,
                 slides, selected_style, layout_types,
                 json_file>>

PictureNext ==
  \E picture_path \in PictureDirs :
    \E chosen_picture \in Choices(used_pictures, picture_path) :
      DoGetPicture(picture_path, chosen_picture)

PictureSpec == PictureInit /\ [][PictureNext]_vars

\* ==================================================== catalog pairing claims
\* the catalog slide the last call was made on, its number shapes in
\* ascending order and the text shapes that are no number shapes
AskedSlide == call.before[2]
AskedNumbers == number_shapes(AskedSlide).list
AskedLabels ==
  SelectSeq(text_shapes(AskedSlide), LAMBDA id : id \notin Range(AskedNumbers))

\* the pairing as stated: every number shape in turn takes the nearest text
\* shape that passes the direction test and that no earlier number took
RECURSIVE NearestUnclaimed(_, _)
NearestUnclaimed(todo, claimed) ==
  IF todo = <<>> THEN <<>>
  ELSE LET taken == closest_text_shape(AskedSlide,
                      LayoutOf(AskedSlide, AskedNumbers),
                      SelectSeq(AskedLabels, LAMBDA id : id \notin claimed),
                      Head(todo))
       IN <<taken>> \o NearestUnclaimed(Tail(todo), claimed \cup {taken})

\* _get_catalog_items was called on a slide with chapter numbers
ItemsAsked ==
  /\ call.name = "items"
  /\ number_shapes(AskedSlide).err = "ok"
  /\ AskedNumbers # <<>>

\* C24: _get_catalog_items pairs every number shape, in ascending numeric
\* order, with the nearest text shape that is no number shape, was not
\* claimed by an earlier number shape and passes the direction test; where
\* every number shape has such a text shape the list has one item per number
\* shape, and in every returned list the text shapes are pairwise distinct
C24_NearestUnclaimedPaired ==
  ItemsAsked =>
    /\ (\A i \in DOMAIN AskedNumbers :
          NearestUnclaimed(AskedNumbers, {})[i] # None)
         => /\ err = "ok"
            /\ Len(ret) = Len(AskedNumbers)
            /\ \A i \in DOMAIN ret :
                 /\ ret[i].number_shape = AskedNumbers[i]
                 /\ ret[i].text_shape = NearestUnclaimed(AskedNumbers, {})[i]
    /\ err = "ok"
         => /\ Len(ret) = Len(AskedNumbers)
            /\ \A i, j \in DOMAIN ret :
                 ret[i].text_shape = ret[j].text_shape => i = j

\* the catalog list of the slide the last call was made on: the matched slots
AskedItems == _get_catalog_items(AskedSlide).list

\* generate_slide was called with fewer chapters than the slide has slots,
\* and every chapter has a title to write
FewerChapters ==
  /\ call.name = "catalog"
  /\ _get_catalog_items(AskedSlide).err = "ok"
  /\ call.content # <<>>
  /\ Len(call.content) < Len(AskedItems)
  /\ \A i \in DOMAIN call.content : HasElementText(Heap, call.content[i])

\* the shapes of the slots from the first to the last of the given ones
SlotShapes(first, last) ==
  UNION {Range(ItemShapes(AskedItems[i])) : i \in first..last}

\* the text a shape of the catalog slide has after the call
TextNow(id) == ShapeOf(slides[2], id).text

\* C25: with M matched slots and N < M chapters generate_slide removes the
\* number, label and background shapes of slots N+1..M and no shape of slots
\* 1..N, writes the chapter titles and the numbers 01..N into slots 1..N, and
\* adds no catalog slide
C25_ExcessSlotsRemoved ==
  FewerChapters =>
    /\ err = "ok"
    /\ Len(slides) = Len(call.before)
    /\ Range(ShapeIds(AskedSlide)) \ Range(ShapeIds(slides[2]))
         = SlotShapes(Len(call.content) + 1, Len(AskedItems))
    /\ SlotShapes(1, Len(call.content)) \subseteq Range(ShapeIds(slides[2]))
    /\ \A i \in 1..Len(call.content) :
         /\ TextNow(AskedItems[i].text_shape) = _text[call.content[i]]
         /\ TextNow(AskedItems[i].number_shape) = zfill(Str(i), 2)

\* ============================================================ picture claims
\* the pictures returned so far for a directory, in the order of the calls
ReturnedFor(history, picture_dir) ==
  SelectSeq(history, LAMBDA r : r.path = picture_dir)

\* every picture the history returned for the pool of the directory came
\* from this directory: the directory of candidates of the pool is fixed
FixedDirectory(history, picture_dir) ==
  \A i \in DOMAIN history :
    picture_type(history[i].path) = picture_type(picture_dir)
      => history[i].path = picture_dir

\* the pictures of the cycle a directory is in: those returned since all
\* its pictures were last used up
CurrentCycle(history, picture_dir) ==
  LET returned == ReturnedFor(history, picture_dir)
      n == Len(listdir(picture_dir))
  IN {returned[i].picture :
        i \in (Len(returned) - (Len(returned) % n) + 1)..Len(returned)}

\* a call of _get_picture returns a picture
PictureReturned ==
  /\ call'.count = call.count + 1
  /\ call'.name = "picture"
  /\ err' = "ok"

\* C26: with one directory of candidates per pool, _get_picture returns no
\* picture again before every picture of the pool was returned, and the used
\* pictures of a pool are reset only when none of its pictures is unused
C26_NoRepeatBeforeExhaustion ==
  [][PictureReturned =>
       /\ FixedDirectory(call'.content, call'.style)
            => call'.content[Len(call'.content)].picture
                 \notin CurrentCycle(call.content, call'.style)
       /\ \A pool \in DOMAIN used_pictures :
            ~(used_pictures[pool] \subseteq used_pictures'[pool])
              => /\ pool = picture_type(call'.style)
                 /\ Range(listdir(call'.style)) \subseteq used_pictures[pool]]_vars

\* a cycle was completed and a picture of the next cycle was returned: the
\* used pictures were reset
C26_Witness ==
  /\ call.name = "picture"
  /\ err = "ok"
  /\ FixedDirectory(call.content, DirA)
  /\ Len(ReturnedFor(call.content, DirA)) > Len(listdir(DirA))
  /\ Cardinality(used_pictures.opaque) = 1

\* ================================================= tree claims, ancestors
\* the walk over next_element from n comes to a node without next element
WalkEnds(n) ==
  next_element[Chain(next_element, n)[Len(Chain(next_element, n))]] \notin Node

\* the chain of parents of n comes to a node without parent
ParentsEnd(n) == n \notin AncestorsOf(Heap, n, {})

\* the call puts a node below one of its own descendants
IntoOwnDescendant ==
  /\ op.name \in {"insert", "append"}
  /\ \E i \in DOMAIN op.args :
       op.args[i] \in Node /\ op.self \in SubtreeOf(pre, op.args[i])

\* C27: after any sequence of insert and append calls no node is its own
\* ancestor: a call that puts a node below one of its own descendants is
\* rejected with an exception, or it returns and leaves the parent chain of
\* every node ending at a node without parent and the walk over
\* next_element from every node ending
C27_NoNodeItsOwnAncestor ==
  /\ (op.name \in {"insert", "append"} /\ err = "ok")
       => \A n \in Elems : ParentsEnd(n) /\ WalkEnds(n)
  /\ IntoOwnDescendant
       => \/ err \notin {"ok", "hang"}
          \/ err = "ok" /\ \A n \in Elems : ParentsEnd(n) /\ WalkEnds(n)

\* ============================================ parser claims, end of input
\* C28: when parse returns, no block is open and no line is left in the
\* table buffer: the lines of a code fence that was never closed, of a
\* Markdown table that ends with its separator and of an HTML table without
\* closing tag were emitted as a CodeBlock or a Table
C28_OpenBlockEmittedAtEnd ==
  (parser.status = "done" /\ err = "ok") =>
    /\ ~parser.in_code_block
    /\ ~parser.in_table_block
    /\ parser.table_lines = <<>>

\* ================================================== generator claims, ids
\* the shapes of a list that were inserted from XML have different ids
DistinctIds(placed) ==
  \A i, j \in DOMAIN placed :
    (/\ placed[i].picture = NoLine
     /\ placed[j].picture = NoLine
     /\ placed[i].xml.id = placed[j].xml.id) => i = j

\* C30: the shapes ChapterContentPage.generate_slide inserts from XML into
\* one content slide have pairwise different shape ids, the instances of a
\* shape with several locations included: after a call that returned, on
\* every slide a call has added
C30_DistinctShapeIds ==
  (call.name = "content" /\ err = "ok")
    => \A k \in DOMAIN slides :
         slides[k].source = "generated" => DistinctIds(slides[k].shapes)

====
